---- MODULE Spec2Model ----
(***************************************************************************)
(* A model of vite-plugin-sri-gen: the generateBundle pipeline (two-pass   *)
(* integrity mapping, runtime injection, dynamic-import analysis, HTML     *)
(* augmentation), the integrity-map builder called on its own, and the     *)
(* remote resource loader with its cache, in-flight map and timeout, and   *)
(* the runtime the plugin injects into entry chunks, run in a page.        *)
(*                                                                         *)
(* The specifications share the variables:                                 *)
(*   Spec        one run of generateBundle.handler over a bundle           *)
(*   SpecBuild   IntegrityProcessor.buildIntegrityMappings called directly *)
(*   SpecLoad    concurrent loadResource calls on remote URLs              *)
(*   SpecHtml    the augmentation of one HTML document, run twice          *)
(*   SpecHref    the same, under the base paths a project can configure    *)
(*   SpecAnalyze DynamicImportAnalyzer.analyzeDynamicImports               *)
(*   SpecRuntime installSriRuntime and the DOM calls of the page           *)
(***************************************************************************)
EXTENDS Integers, Sequences, FiniteSets, TLC

VARIABLES
    bundle,            \* OutputBundle: file name -> bundle item (code/source mutated in place)
    bundle0,           \* history: the bundle as handed to the handler
    isSSR,             \* sri(): let isSSR
    runtimePatchDynamicLinks, \* sri(): options.runtimePatchDynamicLinks !== false
    crossorigin,       \* sri(): options.crossorigin ("" when not configured)
    base,              \* sri(): let base, set from config.base in configResolved
    pc,                \* position of the running caller (handler or direct call)
    trace,             \* history: the pipeline phases entered, in order
    passOpts,          \* buildIntegrityMappings: the options of the running pass
    passRes,           \* buildIntegrityMappings: per entry, the settled value of processBundleItem
    passPending,       \* buildIntegrityMappings: entries whose callback has not resumed yet
    integrityMap,      \* buildIntegrityMappings: const integrityMap
    passes,            \* history: the options of every pass started, in order
    buildOutcome,      \* how the last call of buildIntegrityMappings ended
    nonEntryHashes,    \* handler: const nonEntryHashes
    entryHashes,       \* handler: const entryHashes
    sriByPathname,     \* sri(): let sriByPathname
    dynamicChunkFiles, \* sri(): let dynamicChunkFiles
    injectIdx,         \* handler: position of the injection loop in Object.entries(bundle)
    htmlPending,       \* processHtmlFiles: HTML files whose processing has not settled yet
    log,               \* logger calls made so far (set of [level, about])
    thrown,            \* the error the running step threw ("" when none)
    rethrown,          \* the error the handler rejected with ("" when none)
    remoteCache,       \* sri(): remoteCache, URL -> bytes
    pending,           \* sri(): pending, URL -> the fetch operation registered for it
    enableCache,       \* sri(): options.fetchCache !== false
    fetchTimeoutMs,    \* sri(): options.fetchTimeoutMs ?? 5000
    fetches,           \* the doFetch() operations started, in order
    loads,             \* the loadResource calls, by call number
    skipResources,     \* sri(): options.skipResources ?? []
    net,               \* what the network answers for each remote URL
    dom,               \* addSriToHtml: the parsed document ($), mutated by processElement
    elPending,         \* addSriToHtml: elements whose processElement has not settled yet
    runs,              \* history: the number of augmentations of the document finished
    firstOut,          \* history: the source of the document after its first augmentation
    warnings,          \* the warnings logged so far, in order and with repetitions
    importIdx,         \* analyzeDynamicImports: position in the dynamic imports looped over
    env,               \* the page: which globals exist, how each DOM method can be replaced
    layers,            \* per DOM method, the wrappers installed on its prototype property
    rtPc,              \* installSriRuntime: position of the running installation
    attempted,         \* history: the hooks the running (or last) installation reached
    installOutcome,    \* how the last call of installSriRuntime ended
    installs,          \* history: the calls of installSriRuntime finished
    node,              \* the element the page code works with
    calls              \* history: the last call of a DOM method made by the page code

pipeVars == <<bundle, bundle0, isSSR, runtimePatchDynamicLinks, crossorigin, base, pc, trace,
              passOpts, passRes, passPending, integrityMap, passes,
              buildOutcome, nonEntryHashes, entryHashes, sriByPathname,
              dynamicChunkFiles, injectIdx, htmlPending, log, thrown, rethrown>>
loadVars == <<remoteCache, pending, enableCache, fetchTimeoutMs, fetches, loads>>
htmlVars == <<skipResources, net, dom, elPending, runs, firstOut, warnings, importIdx>>
rtVars == <<env, layers, rtPc, attempted, installOutcome, installs, node, calls>>
vars == <<pipeVars, loadVars, htmlVars, rtVars>>

----------------------------------------------------------------------------
(* Payloads.  A chunk's code and an asset's source are sequences of parts; *)
(* string concatenation is sequence concatenation and "" is << >>.         *)

NoMap == << >>

SrcPart(t) == [kind |-> "src", text |-> t, map |-> NoMap, cors |-> ""]

Text(t) == << SrcPart(t) >>

EmptyText == << >>

(* computeIntegrity: `${algorithm}-${digest}` with a collision-free digest *)
algorithm == "sha384"

computeIntegrity(source) == [alg |-> algorithm, digest |-> source]

----------------------------------------------------------------------------
(* File names of the bundles explored, in Object.entries order.            *)

FileOrder == << "index.html", "main.js", "assets/lazy.js", "legacy.cjs",
                "assets/style.css", "logo.png" >>

Files == { FileOrder[i] : i \in 1..Len(FileOrder) }

(* fileName.split("/") *)
Segs(f) ==
    CASE f = "index.html"       -> << "index.html" >>
      [] f = "main.js"          -> << "main.js" >>
      [] f = "assets/lazy.js"   -> << "assets", "lazy.js" >>
      [] f = "legacy.cjs"       -> << "legacy.cjs" >>
      [] f = "assets/style.css" -> << "assets", "style.css" >>
      [] f = "logo.png"         -> << "logo.png" >>
      [] OTHER                  -> << f >>

(* the text after the last "." of the last segment, lower-cased *)
Ext(f) ==
    CASE f = "index.html"       -> "html"
      [] f = "main.js"          -> "js"
      [] f = "assets/lazy.js"   -> "js"
      [] f = "legacy.cjs"       -> "cjs"
      [] f = "assets/style.css" -> "css"
      [] f = "logo.png"         -> "png"
      [] OTHER                  -> ""

(* IntegrityProcessor.PROCESSABLE_EXTENSIONS = /\.(css|js|mjs)($|\?)/i *)
PROCESSABLE_EXTENSIONS(f) == Ext(f) \in {"css", "js", "mjs"}

(* path.posix.join("/", fileName) for a bundle file name (relative, normalised) *)
Pathname(f) == "/" \o f

----------------------------------------------------------------------------
(* Bundle items.  type is "chunk" or "asset"; a chunk carries code, an     *)
(* asset carries source.  codeThrows marks a chunk whose code getter       *)
(* throws when read, dynThrows one whose dynamicImports getter throws.     *)

Chunk(isEntry, code, codeThrows, name, facadeModuleId, modules, dynamicImports, dynThrows) ==
    [type |-> "chunk", isEntry |-> isEntry, code |-> code, source |-> EmptyText,
     codeThrows |-> codeThrows, name |-> name, facadeModuleId |-> facadeModuleId,
     modules |-> modules, dynamicImports |-> dynamicImports, dynThrows |-> dynThrows]

Asset(source) ==
    [type |-> "asset", isEntry |-> FALSE, code |-> EmptyText, source |-> source,
     codeThrows |-> FALSE, name |-> "", facadeModuleId |-> "",
     modules |-> {}, dynamicImports |-> << >>, dynThrows |-> FALSE]

IsAnyChunk(item) == item.type = "chunk"

(* bundleItem.type === "chunk" && bundleItem.isEntry *)
IsEntryChunk(item) == item.type = "chunk" /\ item.isEntry

(* An element of an HTML document (cheerio node): tag, rel, as, the URL    *)
(* attribute (src for script, href otherwise), integrity, crossorigin.     *)
(* A URL is its prefix ("/", "", "//", "https://") and its path segments.  *)
Url(prefix, segs) == [prefix |-> prefix, segs |-> segs]

Element(tag, rel, as, url, integrity) ==
    [tag |-> tag, rel |-> rel, as |-> as, url |-> url,
     integrity |-> integrity, crossorigin |-> "", id |-> ""]

NoIntegrity == [alg |-> "", digest |-> << >>]

(* The source of an HTML asset: one part holding the parsed document.      *)
Html(els) == << [kind |-> "html", els |-> els, unparsable |-> FALSE] >>

(* a source that throws when it is converted to a string or parsed *)
UnparsableHtml == << [kind |-> "html", els |-> << >>, unparsable |-> TRUE] >>

IndexHtml ==
    Html(<< Element("script", "", "", Url("/", <<"main.js">>), NoIntegrity),
            Element("link", "stylesheet", "", Url("/", <<"assets", "style.css">>), NoIntegrity),
            Element("script", "", "", Url("/", <<"missing.js">>), NoIntegrity),
            Element("link", "icon", "", Url("/", <<"logo.png">>), NoIntegrity) >>)

(* The codes, sources and graph metadata the bundles are drawn from.       *)
MainCodes == { [code |-> Text("console.log(1)"), codeThrows |-> FALSE],
               [code |-> EmptyText, codeThrows |-> FALSE],
               [code |-> EmptyText, codeThrows |-> TRUE] }

LazyCodes == { [code |-> Text("console.log(2)"), codeThrows |-> FALSE],
               [code |-> EmptyText, codeThrows |-> FALSE],
               [code |-> EmptyText, codeThrows |-> TRUE] }

MainDynamicImports == { [list |-> << >>, throws |-> FALSE],
                        [list |-> << "src/lazy.ts" >>, throws |-> FALSE],
                        [list |-> << "ghost", "lazy" >>, throws |-> FALSE],
                        [list |-> << >>, throws |-> TRUE] }

CssSources == { Text("body{}"), EmptyText }

HtmlSources == { IndexHtml, UnparsableHtml }

Bundles ==
    { [f \in keys |->
         CASE f = "index.html"       -> Asset(doc)
           [] f = "main.js"          -> Chunk(TRUE, mc.code, mc.codeThrows, "main",
                                              "src/main.ts", {"src/main.ts", "src/util.ts"},
                                              md.list, md.throws)
           [] f = "assets/lazy.js"   -> Chunk(le, lc.code, lc.codeThrows, "lazy",
                                              "src/lazy.ts", {"src/lazy.ts"}, << >>, FALSE)
           [] f = "legacy.cjs"       -> Chunk(ge, Text("require(1)"), FALSE, "legacy",
                                              "", {}, << >>, FALSE)
           [] f = "assets/style.css" -> Asset(css)
           [] f = "logo.png"         -> Asset(Text("PNG"))
           [] OTHER                  -> Asset(EmptyText) ] :
      keys \in { Files, Files \ {"index.html"} },
      mc \in MainCodes, md \in MainDynamicImports,
      le \in BOOLEAN, lc \in LazyCodes, ge \in BOOLEAN, css \in CssSources,
      doc \in HtmlSources }

(* Object.entries(bundle) / Object.keys(bundle): the keys in insertion order *)
Keys(b) == SelectSeq(FileOrder, LAMBDA f : f \in DOMAIN b)

----------------------------------------------------------------------------
(* Maps from pathname to integrity token (Record<string, string>).         *)

Put(m, k, v) == [x \in DOMAIN m \cup {k} |-> IF x = k THEN v ELSE m[x]]

(* { ...a, ...b } *)
Merge(a, b) == [x \in DOMAIN a \cup DOMAIN b |-> IF x \in DOMAIN b THEN b[x] ELSE a[x]]

Logged(level, msg, about) == [level |-> level, msg |-> msg, about |-> about]

----------------------------------------------------------------------------
(* IntegrityProcessor                                                      *)

NoOptions == [excludeEntryChunks |-> FALSE, onlyEntryChunks |-> FALSE]
ExcludeEntry == [excludeEntryChunks |-> TRUE, onlyEntryChunks |-> FALSE]
OnlyEntry == [excludeEntryChunks |-> FALSE, onlyEntryChunks |-> TRUE]
AllOptions == [excludeEntryChunks : BOOLEAN, onlyEntryChunks : BOOLEAN]

InvalidMappingOptionsUnchecked(opts) == FALSE

(* the options check of buildIntegrityMappings(bundle, options) *)
InvalidMappingOptions(opts) == opts.excludeEntryChunks /\ opts.onlyEntryChunks

(* the entry/non-entry filter of buildIntegrityMappings(bundle, options) *)
FilteredOut(item, opts) ==
    \/ opts.excludeEntryChunks /\ IsEntryChunk(item)
    \/ opts.onlyEntryChunks /\ ~IsEntryChunk(item)

Result(kind, pathname, integrity, warn) ==
    [kind |-> kind, pathname |-> pathname, integrity |-> integrity, warn |-> warn]

(* processBundleItem: "null" (skipped), "hashed" ({pathname, integrity}) or *)
(* "threw" (the promise rejects: the code getter threw).                    *)
processBundleItem(fileName, bundleItem) ==
    IF ~PROCESSABLE_EXTENSIONS(fileName)
    THEN Result("null", "", NoIntegrity, "")
    ELSE IF bundleItem.type = "asset"
    THEN IF bundleItem.source = EmptyText
         THEN Result("null", "", NoIntegrity, "no source content")
         ELSE Result("hashed", Pathname(fileName), computeIntegrity(bundleItem.source), "")
    ELSE IF bundleItem.type = "chunk"
    THEN IF bundleItem.codeThrows
         THEN Result("threw", "", NoIntegrity, "")
         ELSE IF bundleItem.code = EmptyText
         THEN Result("null", "", NoIntegrity, "no code content")
         ELSE Result("hashed", Pathname(fileName), computeIntegrity(bundleItem.code), "")
    ELSE Result("null", "", NoIntegrity, "unknown bundle item type")

(* the value the callback of bundleEntries.map gets for one entry *)
ItemResult(fileName, bundleItem, opts) ==
    IF FilteredOut(bundleItem, opts)
    THEN Result("null", "", NoIntegrity, "")
    ELSE processBundleItem(fileName, bundleItem)

(* buildIntegrityMappings up to its await: the options check, then every    *)
(* callback of bundleEntries.map runs processBundleItem and suspends.       *)
BeginPass(opts) ==
    /\ passOpts' = opts
    /\ passes' = Append(passes, opts)
    /\ integrityMap' = NoMap
    /\ IF InvalidMappingOptions(opts)
       THEN /\ buildOutcome' = "configError"
            /\ passRes' = [f \in {} |-> Result("null", "", NoIntegrity, "")]
            /\ passPending' = {}
            /\ log' = log
       ELSE /\ buildOutcome' = "running"
            /\ passRes' = [f \in DOMAIN bundle |-> ItemResult(f, bundle[f], opts)]
            /\ passPending' = DOMAIN bundle
            /\ log' = log \cup { Logged("warn", passRes'[f].warn, f) :
                                   f \in { g \in DOMAIN bundle : passRes'[g].warn # "" } }

SettleItemUncaught(f) ==
    /\ buildOutcome = "running"
    /\ f \in passPending
    /\ passPending' = passPending \ {f}
    /\ integrityMap' = IF passRes[f].kind = "hashed"
                       THEN Put(integrityMap, passRes[f].pathname, passRes[f].integrity)
                       ELSE integrityMap
    /\ log' = log
    /\ UNCHANGED <<bundle, bundle0, isSSR, runtimePatchDynamicLinks, crossorigin, base, pc,
                   trace, passOpts, passRes, passes, buildOutcome, nonEntryHashes,
                   entryHashes, sriByPathname, dynamicChunkFiles, injectIdx,
                   htmlPending, thrown, rethrown>>
    /\ UNCHANGED <<loadVars, htmlVars, rtVars>>

(* one callback resumes after `await this.processBundleItem(...)` *)
SettleItem(f) ==
    /\ buildOutcome = "running"
    /\ f \in passPending
    /\ passPending' = passPending \ {f}
    /\ integrityMap' = IF passRes[f].kind = "hashed"
                       THEN Put(integrityMap, passRes[f].pathname, passRes[f].integrity)
                       ELSE integrityMap
    /\ log' = IF passRes[f].kind = "threw"
              THEN log \cup { Logged("error", "Failed to process bundle item", f) }
              ELSE log
    /\ UNCHANGED <<bundle, bundle0, isSSR, runtimePatchDynamicLinks, crossorigin, base, pc,
                   trace, passOpts, passRes, passes, buildOutcome, nonEntryHashes,
                   entryHashes, sriByPathname, dynamicChunkFiles, injectIdx,
                   htmlPending, thrown, rethrown>>
    /\ UNCHANGED <<loadVars, htmlVars, rtVars>>

(* `await Promise.allSettled(processingPromises)` is over *)
PassSettled == buildOutcome = "running" /\ passPending = {}

----------------------------------------------------------------------------
(* validateGenerateBundleInputs                                            *)

hasHtmlFiles(b) == \E f \in DOMAIN b : Ext(f) = "html" /\ b[f].type = "asset"

validateGenerateBundleInputs(b, ssr) ==
    IF DOMAIN b = {}
    THEN [isValid |-> FALSE, shouldWarn |-> TRUE, message |-> "Empty bundle detected"]
    ELSE IF ~hasHtmlFiles(b)
    THEN IF ssr
         THEN [isValid |-> FALSE, shouldWarn |-> TRUE,
               message |-> "No emitted HTML detected during SSR build"]
         ELSE [isValid |-> FALSE, shouldWarn |-> FALSE, message |-> ""]
    ELSE [isValid |-> TRUE, shouldWarn |-> FALSE, message |-> ""]

----------------------------------------------------------------------------
(* DynamicImportAnalyzer                                                   *)

(* extractChunksFromBundle: Object.values(bundle).filter(type === "chunk") *)
extractChunksFromBundle(b) == SelectSeq(Keys(b), LAMBDA f : b[f].type = "chunk")

(* the keys one chunk registers: facadeModuleId, name, Object.keys(modules) *)
ModuleKeys(item) ==
    (IF item.facadeModuleId # "" THEN {item.facadeModuleId} ELSE {})
      \cup (IF item.name # "" THEN {item.name} ELSE {})
      \cup item.modules

RECURSIVE MapChunks(_, _, _)
MapChunks(b, chunks, idToFileMap) ==
    IF chunks = << >> THEN idToFileMap
    ELSE LET f == Head(chunks)
             ks == ModuleKeys(b[f])
         IN  MapChunks(b, Tail(chunks),
                       [x \in DOMAIN idToFileMap \cup ks |->
                          IF x \in ks THEN f ELSE idToFileMap[x]])

buildModuleIdMappings(b) == MapChunks(b, extractChunksFromBundle(b), NoMap)

resolveDynamicImportByIdOnly(dynamicImport, idToFileMap, b) ==
    IF dynamicImport \in DOMAIN idToFileMap THEN idToFileMap[dynamicImport] ELSE ""

(* resolveDynamicImport: the file name, or "" for null *)
resolveDynamicImport(dynamicImport, idToFileMap, b) ==
    IF dynamicImport \in DOMAIN idToFileMap
    THEN idToFileMap[dynamicImport]
    ELSE IF dynamicImport \in DOMAIN b /\ b[dynamicImport].type = "chunk"
    THEN dynamicImport
    ELSE LET chunks == extractChunksFromBundle(b)
             hits == SelectSeq(chunks, LAMBDA f : b[f].name = dynamicImport)
         IN  IF hits # << >> THEN Head(hits) ELSE ""

(* every dynamic import of every chunk, in loop order *)
RECURSIVE AllDynamicImports(_, _)
AllDynamicImports(b, chunks) ==
    IF chunks = << >> THEN << >>
    ELSE b[Head(chunks)].dynamicImports \o AllDynamicImports(b, Tail(chunks))

(* Set.add on an insertion-ordered Set *)
SetAdd(seq, x) == IF \E i \in 1..Len(seq) : seq[i] = x THEN seq ELSE Append(seq, x)

RECURSIVE CollectResolved(_, _, _, _)
CollectResolved(b, imports, idToFileMap, acc) ==
    IF imports = << >> THEN acc
    ELSE LET r == resolveDynamicImport(Head(imports), idToFileMap, b)
         IN  CollectResolved(b, Tail(imports), idToFileMap,
                             IF r # "" THEN SetAdd(acc, r) ELSE acc)

(* analyzeDynamicImports: the Set returned, and the targets warned about *)
analyzeDynamicImports(b) ==
    CollectResolved(b, AllDynamicImports(b, extractChunksFromBundle(b)),
                    buildModuleIdMappings(b), << >>)

UnresolvedImports(b) ==
    LET imports == AllDynamicImports(b, extractChunksFromBundle(b))
    IN  { imports[i] : i \in { j \in 1..Len(imports) :
            resolveDynamicImport(imports[j], buildModuleIdMappings(b), b) = "" } }

(* reading chunk.dynamicImports throws for some chunk *)
DynamicImportsThrow(b) == \E f \in DOMAIN b : b[f].type = "chunk" /\ b[f].dynThrows

----------------------------------------------------------------------------
(* Local resource loading and HTML augmentation                            *)

(* isHttpUrl: /^(https?:)?\/\//i *)
isHttpUrl(url) == url.prefix \in {"//", "http://", "https://"}

(* normalizeBundlePath: drops a leading "//" or "/" *)
normalizeBundlePath(url) == url.segs

(* k === p || k.endsWith("/" + p), on path segments *)
EndsWithPath(k, p) ==
    /\ Len(p) <= Len(k)
    /\ SubSeq(k, Len(k) - Len(p) + 1, Len(k)) = p

(* findBundleItem: the key found, or "" for null *)
findBundleItem(b, relPath) ==
    IF \E k \in DOMAIN b : Segs(k) = relPath
    THEN CHOOSE k \in DOMAIN b : Segs(k) = relPath
    ELSE LET bySuffix == SelectSeq(Keys(b), LAMBDA k : EndsWithPath(Segs(k), relPath))
             last == << relPath[Len(relPath)] >>
             byBase == SelectSeq(Keys(b), LAMBDA k : EndsWithPath(Segs(k), last))
         IN  IF bySuffix # << >> THEN Head(bySuffix)
             ELSE IF byBase # << >> THEN Head(byBase)
             ELSE ""

Loaded(kind, val) == [kind |-> kind, val |-> val]

(* loadResource for a path that is not an HTTP URL: "ok" with the payload,  *)
(* "null", or "threw" when the item's code getter throws                    *)
loadLocalResource(url, b) ==
    IF url.segs = << >> THEN Loaded("null", EmptyText)
    ELSE LET k == findBundleItem(b, normalizeBundlePath(url))
         IN  IF k = "" THEN Loaded("null", EmptyText)
             ELSE IF b[k].type = "chunk"
             THEN IF b[k].codeThrows THEN Loaded("threw", EmptyText)
                  ELSE Loaded("ok", b[k].code)
             ELSE Loaded("ok", b[k].source)

(* the selector of addSriToHtml *)
Selected(el) ==
    /\ el.url.segs # << >>
    /\ \/ el.tag = "script"
       \/ el.tag = "link" /\ el.rel \in {"stylesheet", "modulepreload"}
       \/ el.tag = "link" /\ el.rel = "preload" /\ el.as \in {"script", "style"}

(* processElement after `await loadResource(...)`: if (!source) return,     *)
(* else the integrity and crossorigin attributes are set                    *)
setIntegrityUnchecked(el, source, cors) ==
    [el EXCEPT !.integrity = computeIntegrity(source.val),
               !.crossorigin = IF cors # "" THEN cors ELSE @]

setIntegrity(el, source, cors) ==
    IF source.kind # "ok" \/ source.val = EmptyText THEN el
    ELSE [el EXCEPT !.integrity = computeIntegrity(source.val),
                    !.crossorigin = IF cors # "" THEN cors ELSE @]

(* processElement on an element with a bundle path *)
processElement(el, b, cors) ==
    IF el.integrity # NoIntegrity THEN el
    ELSE setIntegrity(el, loadLocalResource(el.url, b), cors)

(* the elements whose processElement rejects (caught and warned about) *)
FailedElements(els, b) ==
    { i \in 1..Len(els) : /\ Selected(els[i])
                          /\ els[i].integrity = NoIntegrity
                          /\ loadLocalResource(els[i].url, b).kind = "threw" }

addSriToHtml(els, b, cors) ==
    [i \in 1..Len(els) |-> IF Selected(els[i]) THEN processElement(els[i], b, cors)
                           ELSE els[i]]

(* Paths as the characters they are made of, "/" being a token of its own:  *)
(* "https://cdn/" is << "https:", "/", "/", "cdn", "/" >>.                   *)
RootBase == << "/" >>

RECURSIVE PathTokens(_)
PathTokens(segs) ==
    IF segs = << >> THEN << >>
    ELSE IF Len(segs) = 1 THEN segs
    ELSE << Head(segs), "/" >> \o PathTokens(Tail(segs))

(* path.posix.normalize on paths without dot segments: a run of slashes     *)
(* becomes one slash, the empty path becomes "."                            *)
RECURSIVE CollapseSlashes(_)
CollapseSlashes(t) ==
    IF Len(t) < 2 THEN t
    ELSE IF t[1] = "/" /\ t[2] = "/" THEN CollapseSlashes(Tail(t))
    ELSE << t[1] >> \o CollapseSlashes(Tail(t))

posixNormalize(t) == IF t = << >> THEN << "." >> ELSE CollapseSlashes(t)

(* path.posix.join(a, b): the non-empty arguments joined by "/", normalized *)
posixJoin(a, b) ==
    posixNormalize(IF a = << >> THEN b
                   ELSE IF b = << >> THEN a
                   ELSE a \o << "/" >> \o b)

NonSlash(t) == SelectSeq(t, LAMBDA x : x # "/")

(* the URL an href is read as: its scheme or leading slashes, its segments *)
HrefUrl(t) ==
    IF Len(t) >= 3 /\ t[1] \in {"https:", "http:"} /\ t[2] = "/" /\ t[3] = "/"
    THEN Url(t[1] \o "//", NonSlash(SubSeq(t, 4, Len(t))))
    ELSE IF Len(t) >= 2 /\ t[1] = "/" /\ t[2] = "/" THEN Url("//", NonSlash(t))
    ELSE IF Len(t) >= 1 /\ t[1] = "/" THEN Url("/", NonSlash(t))
    ELSE Url("", NonSlash(t))

(* const href = path.posix.join(this.config.base, chunkFile) *)
PreloadHref(chunkFile) == HrefUrl(posixJoin(base, PathTokens(Segs(chunkFile))))

addPreloadLinkForChunkAlways(els, chunkFile, sri, cors) ==
    IF Pathname(chunkFile) \notin DOMAIN sri
    THEN els
    ELSE << [Element("link", "modulepreload", "", PreloadHref(chunkFile),
                     sri[Pathname(chunkFile)]) EXCEPT !.crossorigin = cors] >> \o els

(* addPreloadLinkForChunk *)
addPreloadLinkForChunk(els, chunkFile, sri, cors) ==
    IF \E i \in 1..Len(els) : /\ els[i].tag = "link" /\ els[i].rel = "modulepreload"
                              /\ els[i].url = PreloadHref(chunkFile)
    THEN els
    ELSE IF Pathname(chunkFile) \notin DOMAIN sri
    THEN els
    ELSE << [Element("link", "modulepreload", "", PreloadHref(chunkFile),
                     sri[Pathname(chunkFile)]) EXCEPT !.crossorigin = cors] >> \o els

RECURSIVE addDynamicChunkPreloads(_, _, _, _)
addDynamicChunkPreloads(els, chunkFiles, sri, cors) ==
    IF chunkFiles = << >> THEN els
    ELSE addDynamicChunkPreloads(addPreloadLinkForChunk(els, Head(chunkFiles), sri, cors),
                                 Tail(chunkFiles), sri, cors)

(* options.preloadDynamicChunks !== false *)
preloadDynamicChunks == TRUE

(* processSingleHtmlFile rejects: String(asset.source) or load(html) throws *)
HtmlFileThrows(asset) == asset.source # EmptyText /\ asset.source[1].unparsable

(* processSingleHtmlFile: the source the asset has afterwards *)
processSingleHtmlFile(asset, b, sri, chunkFiles, cors) ==
    IF asset.source = EmptyText \/ HtmlFileThrows(asset) THEN asset.source
    ELSE LET withSri == addSriToHtml(asset.source[1].els, b, cors)
         IN  IF preloadDynamicChunks /\ chunkFiles # << >>
             THEN Html(addDynamicChunkPreloads(withSri, chunkFiles, sri, cors))
             ELSE Html(withSri)

(* extractHtmlFiles *)
extractHtmlFiles(b) == { f \in DOMAIN b : Ext(f) = "html" /\ b[f].type = "asset" }

----------------------------------------------------------------------------
(* generateBundle.handler                                                  *)

cfgVars == <<bundle0, isSSR, runtimePatchDynamicLinks, crossorigin, base>>
passVars == <<passOpts, passRes, passPending, integrityMap, passes, buildOutcome>>
handlerMaps == <<nonEntryHashes, entryHashes, sriByPathname, dynamicChunkFiles>>

RuntimeCodeStaleMap(serializedMap, cors) ==
    << [kind |-> "runtime", text |-> "installSriRuntime", map |-> sriByPathname,
        cors |-> cors] >>

(* const runtimeCode = `\n(${installSriRuntime.toString()})(${serializedMap}, {...});\n` *)
RuntimeCode(serializedMap, cors) ==
    << [kind |-> "runtime", text |-> "installSriRuntime", map |-> serializedMap,
        cors |-> cors] >>

Enter(phase) == trace' = Append(trace, phase)

(* a step of the try block throws: control goes to the catch clause *)
Throw(error) ==
    /\ thrown' = error
    /\ pc' = "catch"

(* if (runtimePatchDynamicLinks) { two passes } else { single pass } *)
TwoPassInverted == ~runtimePatchDynamicLinks

TwoPassAlways == TRUE

TwoPass == runtimePatchDynamicLinks

(* from the call to the first await: validation, then the first pass starts *)
HandlerStart ==
    /\ pc = "idle"
    /\ LET v == validateGenerateBundleInputs(bundle, isSSR)
       IN  IF ~v.isValid
           THEN /\ pc' = "returned"
                /\ Enter("Skipped")
                /\ log' = IF v.shouldWarn
                          THEN log \cup { Logged("warn", v.message, "") } ELSE log
                /\ UNCHANGED passVars
           ELSE IF TwoPass
           THEN /\ BeginPass(ExcludeEntry)
                /\ pc' = "awaitNonEntry"
                /\ Enter("HashingNonEntry")
           ELSE /\ BeginPass(NoOptions)
                /\ pc' = "awaitAll"
                /\ Enter("HashingAll")
    /\ UNCHANGED <<bundle, injectIdx, htmlPending, thrown, rethrown>>
    /\ UNCHANGED <<cfgVars, handlerMaps, loadVars, htmlVars, rtVars>>

(* const nonEntryHashes = await ...buildIntegrityMappings(bundle, {excludeEntryChunks: true}) *)
NonEntryPassReturns ==
    /\ pc = "awaitNonEntry"
    /\ PassSettled
    /\ buildOutcome' = "returned"
    /\ nonEntryHashes' = integrityMap
    /\ injectIdx' = 1
    /\ pc' = "inject"
    /\ Enter("InjectingRuntime")
    /\ UNCHANGED <<bundle, passOpts, passRes, passPending, integrityMap, passes,
                   entryHashes, sriByPathname, dynamicChunkFiles, htmlPending, log,
                   thrown, rethrown>>
    /\ UNCHANGED <<cfgVars, loadVars, htmlVars, rtVars>>

InjectLoopDoneEarly == injectIdx > 2

(* the injection loop has visited every entry of Object.entries(bundle) *)
InjectLoopDone == injectIdx > Len(Keys(bundle))

(* one iteration of `for (const [fileName, bundleItem] of Object.entries(bundle))` *)
InjectStep ==
    /\ pc = "inject"
    /\ ~InjectLoopDone
    /\ LET fileName == Keys(bundle)[injectIdx]
           bundleItem == bundle[fileName]
       IN  IF IsEntryChunk(bundleItem)
           THEN IF bundleItem.codeThrows
                THEN /\ Throw("Code access failed")
                     /\ UNCHANGED <<bundle, injectIdx>>
                ELSE /\ bundle' = [bundle EXCEPT ![fileName].code =
                                     RuntimeCode(nonEntryHashes, crossorigin) \o @]
                     /\ injectIdx' = injectIdx + 1
                     /\ UNCHANGED <<pc, thrown>>
           ELSE /\ injectIdx' = injectIdx + 1
                /\ UNCHANGED <<bundle, pc, thrown>>
    /\ UNCHANGED <<trace, htmlPending, log, rethrown>>
    /\ UNCHANGED <<cfgVars, passVars, handlerMaps, loadVars, htmlVars, rtVars>>

(* after the loop: buildIntegrityMappings(bundle, {onlyEntryChunks: true}) starts *)
EntryPassStarts ==
    /\ pc = "inject"
    /\ InjectLoopDone
    /\ BeginPass(OnlyEntry)
    /\ pc' = "awaitEntry"
    /\ Enter("HashingEntry")
    /\ UNCHANGED <<bundle, injectIdx, htmlPending, thrown, rethrown>>
    /\ UNCHANGED <<cfgVars, handlerMaps, loadVars, htmlVars, rtVars>>

MergeHashesDropEntry(nonEntry, entry) == nonEntry

(* sriByPathname = { ...nonEntryHashes, ...entryHashes } *)
MergeHashes(nonEntry, entry) == Merge(nonEntry, entry)

EntryPassReturns ==
    /\ pc = "awaitEntry"
    /\ PassSettled
    /\ buildOutcome' = "returned"
    /\ entryHashes' = integrityMap
    /\ sriByPathname' = MergeHashes(nonEntryHashes, integrityMap)
    /\ pc' = "resolve"
    /\ Enter("ResolvingDynamicImports")
    /\ UNCHANGED <<bundle, passOpts, passRes, passPending, integrityMap, passes,
                   nonEntryHashes, dynamicChunkFiles, injectIdx, htmlPending, log,
                   thrown, rethrown>>
    /\ UNCHANGED <<cfgVars, loadVars, htmlVars, rtVars>>

(* sriByPathname = await integrityProcessor.buildIntegrityMappings(bundle) *)
SinglePassReturns ==
    /\ pc = "awaitAll"
    /\ PassSettled
    /\ buildOutcome' = "returned"
    /\ sriByPathname' = integrityMap
    /\ pc' = "resolve"
    /\ Enter("ResolvingDynamicImports")
    /\ UNCHANGED <<bundle, passOpts, passRes, passPending, integrityMap, passes,
                   nonEntryHashes, entryHashes, dynamicChunkFiles, injectIdx,
                   htmlPending, log, thrown, rethrown>>
    /\ UNCHANGED <<cfgVars, loadVars, htmlVars, rtVars>>

(* analyzeDynamicImports(bundle), then processHtmlFiles starts every HTML file *)
ResolveAndStartHtml ==
    /\ pc = "resolve"
    /\ IF DynamicImportsThrow(bundle)
       THEN /\ Throw("dynamicImports access failed")
            /\ UNCHANGED <<dynamicChunkFiles, htmlPending, log, trace>>
       ELSE /\ dynamicChunkFiles' = analyzeDynamicImports(bundle)
            /\ log' = log \cup { Logged("warn", "Could not resolve dynamic import", d) :
                                   d \in UnresolvedImports(bundle) }
            /\ htmlPending' = extractHtmlFiles(bundle)
            /\ pc' = "awaitHtml"
            /\ Enter("AugmentingHtml")
            /\ UNCHANGED thrown
    /\ UNCHANGED <<bundle, nonEntryHashes, entryHashes, sriByPathname, injectIdx, rethrown>>
    /\ UNCHANGED <<cfgVars, passVars, loadVars, htmlVars, rtVars>>

HtmlFileSettlesUncaught(f) ==
    /\ pc = "awaitHtml"
    /\ f \in htmlPending
    /\ htmlPending' = htmlPending \ {f}
    /\ IF HtmlFileThrows(bundle[f])
       THEN Throw("Failed to process HTML file")
       ELSE UNCHANGED <<pc, thrown>>
    /\ bundle' = [bundle EXCEPT ![f].source =
                    processSingleHtmlFile(bundle[f], bundle, sriByPathname,
                                          dynamicChunkFiles, crossorigin)]
    /\ UNCHANGED <<log, trace, injectIdx, rethrown>>
    /\ UNCHANGED <<cfgVars, passVars, handlerMaps, loadVars, htmlVars, rtVars>>

(* one HTML file of processHtmlFiles settles: asset.source = processedHtml, *)
(* or its rejection is caught and logged by the callback of htmlFiles.map   *)
HtmlFileSettles(f) ==
    /\ pc = "awaitHtml"
    /\ f \in htmlPending
    /\ htmlPending' = htmlPending \ {f}
    /\ bundle' = [bundle EXCEPT ![f].source =
                    processSingleHtmlFile(bundle[f], bundle, sriByPathname,
                                          dynamicChunkFiles, crossorigin)]
    /\ log' = log
                \cup (IF bundle[f].source = EmptyText
                      THEN { Logged("warn", "HTML file has no source content", f) }
                      ELSE IF HtmlFileThrows(bundle[f])
                      THEN { Logged("error", "Failed to process HTML file", f) }
                      ELSE { Logged("warn", "Failed to compute integrity", f) :
                               i \in FailedElements(bundle[f].source[1].els, bundle) })
                \cup (IF bundle[f].source # EmptyText /\ ~HtmlFileThrows(bundle[f])
                         /\ preloadDynamicChunks
                      THEN { Logged("warn", "No integrity found for dynamic chunk", c) :
                               c \in { dynamicChunkFiles[i] : i \in
                                         { j \in 1..Len(dynamicChunkFiles) :
                                             Pathname(dynamicChunkFiles[j])
                                               \notin DOMAIN sriByPathname } } }
                      ELSE {})
    /\ UNCHANGED <<pc, trace, injectIdx, thrown, rethrown>>
    /\ UNCHANGED <<cfgVars, passVars, handlerMaps, loadVars, htmlVars, rtVars>>

(* await processHtmlFiles(...) is over: the summary is logged, the handler returns *)
HandlerReturns ==
    /\ pc = "awaitHtml"
    /\ htmlPending = {}
    /\ log' = log \cup { Logged("summary", "SRI generation completed", "") }
    /\ pc' = "done"
    /\ Enter("Done")
    /\ UNCHANGED <<bundle, injectIdx, htmlPending, thrown, rethrown>>
    /\ UNCHANGED <<cfgVars, passVars, handlerMaps, loadVars, htmlVars, rtVars>>

HandlerSwallows ==
    /\ pc = "catch"
    /\ log' = log \cup { Logged("error", "Critical error during SRI generation", thrown) }
    /\ pc' = "done"
    /\ Enter("Done")
    /\ UNCHANGED <<bundle, injectIdx, htmlPending, thrown, rethrown>>
    /\ UNCHANGED <<cfgVars, passVars, handlerMaps, loadVars, htmlVars, rtVars>>

(* catch (error) { handleGenerateBundleError(error, logger); throw error; } *)
HandlerCatches ==
    /\ pc = "catch"
    /\ log' = log \cup { Logged("error", "Critical error during SRI generation", thrown) }
    /\ rethrown' = thrown
    /\ pc' = "failed"
    /\ Enter("Failed")
    /\ UNCHANGED <<bundle, injectIdx, htmlPending, thrown>>
    /\ UNCHANGED <<cfgVars, passVars, handlerMaps, loadVars, htmlVars, rtVars>>

----------------------------------------------------------------------------
(* Specification of one pipeline run.  isSSR is read only when the bundle   *)
(* holds no HTML file, so it is varied only there.                         *)

NoResults == [f \in {} |-> Result("null", "", NoIntegrity, "")]

InitPass ==
    /\ passOpts = NoOptions
    /\ passRes = NoResults
    /\ passPending = {}
    /\ integrityMap = NoMap
    /\ passes = << >>
    /\ buildOutcome = "none"

InitHandler ==
    /\ nonEntryHashes = NoMap
    /\ entryHashes = NoMap
    /\ sriByPathname = NoMap
    /\ dynamicChunkFiles = << >>
    /\ injectIdx = 0
    /\ htmlPending = {}
    /\ log = {}
    /\ thrown = ""
    /\ rethrown = ""

InitHtmlIdle ==
    /\ skipResources = << >>
    /\ net = NoMap
    /\ dom = << >>
    /\ elPending = {}
    /\ runs = 0
    /\ firstOut = EmptyText
    /\ warnings = << >>
    /\ importIdx = 0

(* no page: the runtime has not been loaded anywhere *)
InitRuntimeIdle ==
    /\ env = << >>
    /\ layers = << >>
    /\ rtPc = "off"
    /\ attempted = {}
    /\ installOutcome = "none"
    /\ installs = 0
    /\ node = << >>
    /\ calls = << >>

InitLoadIdle ==
    /\ remoteCache = NoMap
    /\ pending = NoMap
    /\ enableCache = TRUE
    /\ fetchTimeoutMs = 5000
    /\ fetches = << >>
    /\ loads = << >>

Init ==
    /\ bundle \in Bundles
    /\ bundle0 = bundle
    /\ isSSR \in (IF hasHtmlFiles(bundle) THEN {FALSE} ELSE BOOLEAN)
    /\ base = RootBase
    /\ runtimePatchDynamicLinks \in BOOLEAN
    /\ crossorigin \in {"", "anonymous"}
    /\ pc = "idle"
    /\ trace = << "Idle" >>
    /\ InitPass
    /\ InitHandler
    /\ InitRuntimeIdle
    /\ InitLoadIdle
    /\ InitHtmlIdle

Next ==
    \/ HandlerStart
    \/ \E f \in Files : SettleItem(f)
    \/ NonEntryPassReturns
    \/ InjectStep
    \/ EntryPassStarts
    \/ EntryPassReturns
    \/ SinglePassReturns
    \/ ResolveAndStartHtml
    \/ \E f \in Files : HtmlFileSettles(f)
    \/ HandlerReturns
    \/ HandlerCatches

Spec == Init /\ [][Next]_vars

----------------------------------------------------------------------------
(* Specification of buildIntegrityMappings called on its own, as the unit   *)
(* tests do: processor.buildIntegrityMappings(bundle, options).             *)

(* the call, up to its first await or to its rejection *)
DirectCall(opts) ==
    /\ pc = "direct"
    /\ BeginPass(opts)
    /\ IF InvalidMappingOptions(opts)
       THEN /\ thrown' = "Invalid integrity mapping options"
            /\ pc' = "directRejected"
       ELSE /\ thrown' = thrown
            /\ pc' = "directAwait"
    /\ UNCHANGED <<bundle, trace, injectIdx, htmlPending, rethrown>>
    /\ UNCHANGED <<cfgVars, handlerMaps, loadVars, htmlVars, rtVars>>

(* return integrityMap *)
DirectReturn ==
    /\ pc = "directAwait"
    /\ PassSettled
    /\ buildOutcome' = "returned"
    /\ pc' = "directReturned"
    /\ UNCHANGED <<bundle, passOpts, passRes, passPending, integrityMap, passes,
                   trace, injectIdx, htmlPending, log, thrown, rethrown>>
    /\ UNCHANGED <<cfgVars, handlerMaps, loadVars, htmlVars, rtVars>>

BuildBundles == { b \in Bundles : DOMAIN b = Files /\ b["main.js"].dynamicImports = << >>
                                    /\ ~b["main.js"].dynThrows }

InitBuild ==
    /\ bundle \in BuildBundles
    /\ bundle0 = bundle
    /\ isSSR = FALSE
    /\ base = RootBase
    /\ runtimePatchDynamicLinks = TRUE
    /\ crossorigin = ""
    /\ pc = "direct"
    /\ trace = << >>
    /\ InitPass
    /\ InitHandler
    /\ InitRuntimeIdle
    /\ InitLoadIdle
    /\ InitHtmlIdle

NextBuild ==
    \/ \E opts \in AllOptions : DirectCall(opts)
    \/ \E f \in Files : SettleItem(f)
    \/ DirectReturn

SpecBuild == InitBuild /\ [][NextBuild]_vars

----------------------------------------------------------------------------
(* Properties of the pipeline                                              *)

Range(seq) == { seq[i] : i \in 1..Len(seq) }

IsPrefix(s, t) == Len(s) <= Len(t) /\ SubSeq(t, 1, Len(s)) = s

EntryChunks == { f \in DOMAIN bundle : bundle[f].type = "chunk" /\ bundle[f].isEntry }

NonEntryChunks == { f \in DOMAIN bundle : bundle[f].type = "chunk" /\ ~bundle[f].isEntry }

(* the chunk's code is the runtime followed by its original code *)
Injected(f) ==
    /\ bundle[f].code # EmptyText
    /\ bundle[f].code[1].kind = "runtime"
    /\ Tail(bundle[f].code) = bundle0[f].code

(* a chunk the builder can hash: processable name, readable, non-empty code *)
Hashable(f, code) ==
    PROCESSABLE_EXTENSIONS(f) /\ ~bundle[f].codeThrows /\ code # EmptyText

FinalMapSet == "ResolvingDynamicImports" \in Range(trace)

(* C2: with runtime injection enabled, the final map holds for every entry  *)
(* chunk with a processable file name the hash of the chunk's final code,   *)
(* which is the runtime followed by the original code, and not the hash of  *)
(* the original code; an entry chunk with another file name has no token.   *)
C2_EntryTokenIsHashOfFinalCode ==
    (runtimePatchDynamicLinks /\ FinalMapSet) =>
      \A f \in EntryChunks :
        IF PROCESSABLE_EXTENSIONS(f)
        THEN /\ Pathname(f) \in DOMAIN sriByPathname
             /\ sriByPathname[Pathname(f)] = computeIntegrity(bundle[f].code)
             /\ bundle[f].code = RuntimeCode(nonEntryHashes, crossorigin) \o bundle0[f].code
             /\ sriByPathname[Pathname(f)] # computeIntegrity(bundle0[f].code)
        ELSE Pathname(f) \notin DOMAIN sriByPathname

C2_Witness ==
    /\ runtimePatchDynamicLinks
    /\ pc = "done"
    /\ "/main.js" \in DOMAIN sriByPathname
    /\ bundle0["main.js"].code # EmptyText
    /\ Len(bundle["main.js"].code) = 2

(* the maps embedded in the runtimes that entry chunks carry *)
EmbeddedMaps ==
    { bundle[f].code[1].map :
        f \in { g \in EntryChunks : /\ bundle[g].code # EmptyText
                                    /\ bundle[g].code[1].kind = "runtime" } }

(* C3: with runtime injection enabled, the map embedded in an injected      *)
(* runtime is the result of the first pass, and it holds for every          *)
(* non-entry chunk the builder can hash the token of the chunk's code as it *)
(* was before any injection (other non-entry chunks have no token in it).   *)
C3_RuntimeEmbedsFirstPassTokens ==
    runtimePatchDynamicLinks =>
      \A m \in EmbeddedMaps :
        /\ m = nonEntryHashes
        /\ \A g \in NonEntryChunks :
             IF Hashable(g, bundle0[g].code)
             THEN /\ Pathname(g) \in DOMAIN m
                  /\ m[Pathname(g)] = computeIntegrity(bundle0[g].code)
             ELSE Pathname(g) \notin DOMAIN m

C3_Witness ==
    /\ runtimePatchDynamicLinks
    /\ pc = "done"
    /\ "assets/lazy.js" \in NonEntryChunks
    /\ \E m \in EmbeddedMaps : "/assets/lazy.js" \in DOMAIN m


(* the phases of a complete two-pass run, in order *)
FullRun == << "Idle", "HashingNonEntry", "InjectingRuntime", "HashingEntry",
              "ResolvingDynamicImports", "AugmentingHtml", "Done" >>

Running == pc \notin {"done", "failed", "returned"}

(* C6: with runtime injection enabled and a bundle that passes validation,  *)
(* the phases entered so far are a prefix of HashingNonEntry,               *)
(* InjectingRuntime, HashingEntry, ResolvingDynamicImports, AugmentingHtml, *)
(* Done, or such a prefix (short of Done) followed by Failed; a run that    *)
(* can take no further step has reached Done or Failed.                     *)
C6_PhasesInOrder ==
    (runtimePatchDynamicLinks /\ validateGenerateBundleInputs(bundle0, isSSR).isValid) =>
      /\ \/ IsPrefix(trace, FullRun)
         \/ \E n \in 1..(Len(FullRun) - 1) :
              trace = Append(SubSeq(FullRun, 1, n), "Failed")
      /\ (pc = "done") <=> (trace[Len(trace)] = "Done")
      /\ (pc = "failed") <=> (trace[Len(trace)] = "Failed")
      /\ Running => ENABLED Next

C6_Witness ==
    /\ runtimePatchDynamicLinks
    /\ trace = FullRun
    /\ pc = "done"

(* C7: once a pipeline step has thrown, the handler never returns normally: *)
(* it is in its catch clause or has failed, and when it has failed the      *)
(* error was logged and the handler rejected with that same error; a        *)
(* handler that did not throw rejects with nothing.                         *)
C7_ErrorsLoggedAndRethrown ==
    /\ thrown # "" =>
         /\ pc \in {"catch", "failed"}
         /\ pc = "catch" => ENABLED HandlerCatches
         /\ pc = "failed" =>
              /\ rethrown = thrown
              /\ Logged("error", "Critical error during SRI generation", thrown) \in log
         /\ "Done" \notin Range(trace)
    /\ thrown = "" => (rethrown = "" /\ pc \notin {"catch", "failed"})

C7_Witness ==
    /\ pc = "failed"
    /\ rethrown = "dynamicImports access failed"
    /\ "ResolvingDynamicImports" \in Range(trace)

C7_WitnessInjection ==
    /\ pc = "failed"
    /\ rethrown = "Code access failed"
    /\ trace[Len(trace) - 1] = "InjectingRuntime"

C9_SinglePassWithoutInjection ==
    ~runtimePatchDynamicLinks =>
      /\ IsPrefix(passes, << NoOptions >>)
      /\ \A f \in DOMAIN bundle : bundle[f].code = bundle0[f].code
      /\ FinalMapSet =>
           \A f \in DOMAIN bundle :
             IF bundle0[f].type = "chunk" /\ Hashable(f, bundle0[f].code)
             THEN /\ Pathname(f) \in DOMAIN sriByPathname
                  /\ sriByPathname[Pathname(f)] = computeIntegrity(bundle0[f].code)
             ELSE IF bundle0[f].type = "asset" /\ PROCESSABLE_EXTENSIONS(f)
                     /\ bundle0[f].source # EmptyText
             THEN /\ Pathname(f) \in DOMAIN sriByPathname
                  /\ sriByPathname[Pathname(f)] = computeIntegrity(bundle0[f].source)
             ELSE Pathname(f) \notin DOMAIN sriByPathname

C9_Witness ==
    /\ ~runtimePatchDynamicLinks
    /\ pc = "done"
    /\ "main.js" \in EntryChunks /\ "/main.js" \in DOMAIN sriByPathname
    /\ "assets/lazy.js" \in NonEntryChunks /\ "/assets/lazy.js" \in DOMAIN sriByPathname

(* C10: throughout a run the code of every non-entry chunk and the source   *)
(* of every asset that is not an HTML file are what they were at the start; *)
(* the code of an entry chunk is its original code or the runtime           *)
(* followed by its original code.                                           *)
C10_OnlyEntryCodeAndHtmlChange ==
    /\ DOMAIN bundle = DOMAIN bundle0
    /\ \A f \in DOMAIN bundle :
         /\ (bundle0[f].type = "chunk" /\ ~bundle0[f].isEntry) => bundle[f] = bundle0[f]
         /\ (bundle0[f].type = "asset" /\ Ext(f) # "html") => bundle[f] = bundle0[f]
         /\ (bundle0[f].type = "chunk" /\ bundle0[f].isEntry) =>
              /\ bundle[f].code = bundle0[f].code \/ Injected(f)
              /\ [bundle[f] EXCEPT !.code = bundle0[f].code] = bundle0[f]
         /\ (bundle0[f].type = "asset" /\ Ext(f) = "html") =>
              [bundle[f] EXCEPT !.source = bundle0[f].source] = bundle0[f]

C10_Witness ==
    /\ pc = "done"
    /\ NonEntryChunks # {}
    /\ Injected("main.js")
    /\ bundle["index.html"].source # bundle0["index.html"].source


(* an artifact whose processing fails in the pass with options opts: a chunk *)
(* the pass does not filter out, with a processable name, whose code throws  *)
FailsInPass(f, opts) ==
    /\ bundle[f].type = "chunk"
    /\ bundle[f].codeThrows
    /\ PROCESSABLE_EXTENSIONS(f)
    /\ ~FilteredOut(bundle[f], opts)

(* an artifact the pass with options opts can hash, and its payload *)
HashedInPass(f, opts) ==
    /\ PROCESSABLE_EXTENSIONS(f)
    /\ ~FilteredOut(bundle[f], opts)
    /\ IF bundle[f].type = "chunk"
       THEN ~bundle[f].codeThrows /\ bundle[f].code # EmptyText
       ELSE bundle[f].source # EmptyText

PayloadOf(f) == IF bundle[f].type = "chunk" THEN bundle[f].code ELSE bundle[f].source

(* C11: when the builder is called with valid options it never throws, and   *)
(* once it has returned, every artifact whose processing failed has no map   *)
(* entry and an error logged for it, while every other artifact the pass can *)
(* hash has its entry, the hash of its payload.                              *)
C11_FailingItemSkippedOthersHashed ==
    (passes # << >> /\ ~InvalidMappingOptions(passOpts)) =>
      /\ thrown = ""
      /\ pc \in {"directAwait", "directReturned"}
      /\ (pc = "directAwait" /\ passPending = {}) => ENABLED DirectReturn
      /\ pc = "directReturned" =>
           \A f \in DOMAIN bundle :
             /\ FailsInPass(f, passOpts) =>
                  /\ Pathname(f) \notin DOMAIN integrityMap
                  /\ Logged("error", "Failed to process bundle item", f) \in log
             /\ HashedInPass(f, passOpts) =>
                  /\ Pathname(f) \in DOMAIN integrityMap
                  /\ integrityMap[Pathname(f)] = computeIntegrity(PayloadOf(f))

C11_Witness ==
    /\ pc = "directReturned"
    /\ passOpts = NoOptions
    /\ FailsInPass("main.js", passOpts)
    /\ "/main.js" \notin DOMAIN integrityMap
    /\ HashedInPass("assets/lazy.js", passOpts)
    /\ "/assets/lazy.js" \in DOMAIN integrityMap
    /\ "/assets/style.css" \in DOMAIN integrityMap

(* an HTML file of the bundle whose processing threw and has settled *)
HtmlFileThrew(f) ==
    /\ f \in extractHtmlFiles(bundle0)
    /\ HtmlFileThrows(bundle0[f])
    /\ "AugmentingHtml" \in Range(trace)
    /\ f \notin htmlPending

(* C13, as stated: when processing an HTML document has thrown, the run ends *)
(* failed, with the error re-thrown to the host.                            *)
C13_HtmlErrorRethrown ==
    \A f \in DOMAIN bundle :
        (HtmlFileThrew(f) /\ ~Running) => (pc = "failed" /\ rethrown # "")

(* C13, amended: when processing an HTML document throws, the error is      *)
(* caught inside processHtmlFiles and logged for that file, the document is *)
(* left as it was, no error reaches the handler and the run ends Done.      *)
C13_HtmlErrorCaughtPerFile ==
    \A f \in DOMAIN bundle :
        HtmlFileThrew(f) =>
            /\ Logged("error", "Failed to process HTML file", f) \in log
            /\ bundle[f].source = bundle0[f].source
            /\ thrown = ""
            /\ rethrown = ""
            /\ pc \in {"awaitHtml", "done"}
            /\ (pc = "awaitHtml" /\ htmlPending = {}) => ENABLED HandlerReturns

C13_Witness ==
    /\ HtmlFileThrew("index.html")
    /\ pc = "done"
    /\ trace[Len(trace)] = "Done"

----------------------------------------------------------------------------
(* loadResource on HTTP URLs: cache, in-flight map, fetch and timeout.      *)
(* A load is one call of loadResource; a fetch is one call of doFetch().    *)

MaxLoads == 3

(* builds one plugin instance goes through *)
MaxRuns == 2

RemotePaths == { Url("https://", << "cdn", "a.js" >>),
                 Url("//", << "cdn", "a.js" >>),
                 Url("https://", << "cdn", "b.js" >>) }

(* what the server may answer with *)
Bodies == { "v1", "v2" }

(* resourcePath.startsWith("//") ? `https:${resourcePath}` : resourcePath *)
AbsoluteUrl(resourcePath) ==
    IF resourcePath.prefix = "//" THEN Url("https://", resourcePath.segs)
    ELSE resourcePath

LoadIds == 1..Len(loads)
FetchIds == 1..Len(fetches)

FetchesOf(url) == { i \in FetchIds : fetches[i].url = url }

PendingGetMiss(url) == 0

(* pending.get(url): the fetch registered for the URL, 0 for undefined *)
PendingGet(url) == IF url \in DOMAIN pending THEN pending[url] ELSE 0

AbortTargetsShared(l) == { i \in FetchIds : fetches[i].state = "inflight" /\ fetches[i].signal # 0 }

(* controller.abort() of load l: the in-flight fetches that were given its signal *)
AbortTargets(l) == { i \in FetchIds : fetches[i].state = "inflight" /\ fetches[i].signal = l }

(* the timer and controller a load sets up before it fetches *)
TimerFor(ms) == IF ms > 0 THEN "armed" ELSE "none"

Load(path, url, state, fetch, timer, result) ==
    [path |-> path, url |-> url, state |-> state, fetch |-> fetch, timer |-> timer,
     result |-> result]

(* loadResource(resourcePath) from the call to its first await, or to its   *)
(* return on a cache hit                                                    *)
LoadStart(resourcePath) ==
    /\ pc = "loading"
    /\ Len(loads) < MaxLoads
    /\ isHttpUrl(resourcePath)
    /\ LET url == AbsoluteUrl(resourcePath)
           l == Len(loads) + 1
           timer == TimerFor(fetchTimeoutMs)
           p == PendingGet(url)
           newFetch == [url |-> url, signal |-> IF timer = "armed" THEN l ELSE 0,
                        owner |-> l, state |-> "inflight", body |-> ""]
       IN  IF enableCache /\ url \in DOMAIN remoteCache
           THEN /\ loads' = Append(loads, Load(resourcePath, url, "resolved", 0, "none",
                                               remoteCache[url]))
                /\ UNCHANGED <<fetches, pending>>
           ELSE IF enableCache /\ p # 0
           THEN /\ loads' = Append(loads, Load(resourcePath, url, "awaiting", p, timer, ""))
                /\ UNCHANGED <<fetches, pending>>
           ELSE /\ fetches' = Append(fetches, newFetch)
                /\ pending' = IF enableCache THEN Put(pending, url, Len(fetches) + 1)
                              ELSE pending
                /\ loads' = Append(loads, Load(resourcePath, url, "awaiting",
                                               Len(fetches) + 1, timer, ""))
    /\ UNCHANGED <<remoteCache, enableCache, fetchTimeoutMs>>
    /\ UNCHANGED <<pipeVars, htmlVars, rtVars>>

(* clearTimeout(timeoutId) in the finally of doFetch, run by the load that owns it *)
ClearTimer(ls, l) ==
    [ls EXCEPT ![l].timer = IF @ = "armed" THEN "cleared" ELSE @]

(* fetch(url) settles: a response (ok or not) or a network failure *)
FetchSettles(i, outcome, body) ==
    /\ pc = "loading"
    /\ i \in FetchIds
    /\ fetches[i].state = "inflight"
    /\ fetches' = [fetches EXCEPT ![i].state = outcome,
                                  ![i].body = IF outcome = "ok" THEN body ELSE ""]
    /\ loads' = ClearTimer(loads, fetches[i].owner)
    /\ UNCHANGED <<remoteCache, pending, enableCache, fetchTimeoutMs>>
    /\ UNCHANGED <<pipeVars, htmlVars, rtVars>>

(* setTimeout(() => controller.abort(), fetchTimeoutMs) fires for load l *)
TimeoutFires(l) ==
    /\ pc = "loading"
    /\ l \in LoadIds
    /\ loads[l].timer = "armed"
    /\ fetches' = [i \in FetchIds |->
                     IF i \in AbortTargets(l) THEN [fetches[i] EXCEPT !.state = "aborted"]
                     ELSE fetches[i]]
    /\ loads' = [loads EXCEPT ![l].timer = "fired"]
    /\ UNCHANGED <<remoteCache, pending, enableCache, fetchTimeoutMs>>
    /\ UNCHANGED <<pipeVars, htmlVars, rtVars>>

(* `const bytes = await p` resumes: cache.set and return, or the rejection *)
LoadResumes(l) ==
    /\ pc = "loading"
    /\ l \in LoadIds
    /\ loads[l].state = "awaiting"
    /\ fetches[loads[l].fetch].state # "inflight"
    /\ LET f == fetches[loads[l].fetch]
       IN  IF f.state = "ok"
           THEN /\ loads' = [loads EXCEPT ![l].state = "resolved", ![l].result = f.body]
                /\ remoteCache' = IF enableCache THEN Put(remoteCache, loads[l].url, f.body)
                                  ELSE remoteCache
           ELSE /\ loads' = [loads EXCEPT ![l].state = "rejected", ![l].result = f.state]
                /\ UNCHANGED remoteCache
    /\ UNCHANGED <<pending, enableCache, fetchTimeoutMs, fetches>>
    /\ UNCHANGED <<pipeVars, htmlVars, rtVars>>

(* the host starts the next build with the same plugin instance (watch     *)
(* mode, a further output): the closure of sri() and its two maps stay      *)
BuildAgain ==
    /\ pc = "loading"
    /\ runs + 1 < MaxRuns
    /\ \A l \in LoadIds : loads[l].state # "awaiting"
    /\ runs' = runs + 1
    /\ UNCHANGED <<skipResources, net, dom, elPending, firstOut, warnings, importIdx>>
    /\ UNCHANGED <<pipeVars, loadVars, rtVars>>

InitLoad ==
    /\ bundle = [f \in {} |-> Asset(EmptyText)]
    /\ bundle0 = bundle
    /\ isSSR = FALSE
    /\ base = RootBase
    /\ runtimePatchDynamicLinks = TRUE
    /\ crossorigin = ""
    /\ pc = "loading"
    /\ trace = << >>
    /\ InitPass
    /\ InitHandler
    /\ InitRuntimeIdle
    /\ remoteCache = NoMap
    /\ pending = NoMap
    /\ enableCache \in BOOLEAN
    /\ fetchTimeoutMs \in {0, 5000}
    /\ fetches = << >>
    /\ loads = << >>
    /\ InitHtmlIdle

NextLoad ==
    \/ \E resourcePath \in RemotePaths : LoadStart(resourcePath)
    \/ \E i \in 1..MaxLoads, outcome \in {"ok", "httpError", "networkError"}, body \in Bodies :
         FetchSettles(i, outcome, body)
    \/ \E l \in 1..MaxLoads : TimeoutFires(l)
    \/ \E l \in 1..MaxLoads : LoadResumes(l)
    \/ BuildAgain

SpecLoad == InitLoad /\ [][NextLoad]_vars

----------------------------------------------------------------------------
(* Properties of the remote loader.                                         *)

(* two loads of one URL where the later one started while the fetch of the  *)
(* earlier one was in flight (a fetch never returns to in-flight)           *)
Concurrent(l1, l2) ==
    /\ l1 < l2
    /\ loads[l1].url = loads[l2].url
    /\ loads[l1].fetch # 0
    /\ loads[l2].fetch # 0
    /\ fetches[loads[l1].fetch].state = "inflight"

(* C4, as stated: two loads of the same remote URL that are concurrent      *)
(* within one build share exactly one network fetch, whatever the           *)
(* configuration.                                                           *)
C4_OneFetchForConcurrentLoads ==
    \A l1 \in LoadIds, l2 \in LoadIds :
        Concurrent(l1, l2) =>
            /\ loads[l2].fetch = loads[l1].fetch
            /\ Cardinality(FetchesOf(loads[l1].url)) = 1

(* C4, amended: with the fetch cache enabled, every URL is fetched at most  *)
(* once, a fetch is registered as in flight in the step that issues it,     *)
(* all loads of the URL await that one fetch and each of them receives its  *)
(* result (its bytes, also when served from the cache, or its failure).     *)
C4_OneFetchWhenCacheEnabled ==
    enableCache =>
        /\ \A i \in FetchIds : PendingGet(fetches[i].url) = i
        /\ \A l \in LoadIds :
             LET p == PendingGet(loads[l].url)
             IN  /\ p # 0
                 /\ Cardinality(FetchesOf(loads[l].url)) = 1
                 /\ loads[l].fetch \in {0, p}
                 /\ loads[l].state = "resolved" =>
                        fetches[p].state = "ok" /\ loads[l].result = fetches[p].body
                 /\ loads[l].state = "rejected" =>
                        fetches[p].state # "ok" /\ loads[l].result = fetches[p].state

C4_Witness ==
    /\ enableCache
    /\ \E l1 \in LoadIds, l2 \in LoadIds :
         /\ l1 < l2
         /\ loads[l1].path # loads[l2].path
         /\ loads[l1].fetch # 0
         /\ loads[l2].fetch = loads[l1].fetch
         /\ loads[l1].state = "resolved"
         /\ loads[l2].state = "resolved"
         /\ loads[l1].result = loads[l2].result
         /\ Cardinality(FetchesOf(loads[l1].url)) = 1

(* C5: a step in which the timeout of load l fires changes no fetch other   *)
(* than the one that was given the signal of l, and no load other than l:   *)
(* fetches of other URLs stay in flight and their loads stay waiting.       *)
C5_TimeoutRejectsOnlyItsFetch ==
    [][\A l \in LoadIds :
         (loads[l].timer = "armed" /\ loads'[l].timer = "fired") =>
            /\ \A i \in FetchIds :
                 (fetches[i].signal # l \/ fetches[i].url # loads[l].url) =>
                     fetches'[i] = fetches[i]
            /\ \A m \in LoadIds : m # l => loads'[m] = loads[m]]_vars

(* a fetch was aborted by its timeout and its load rejected, while the load  *)
(* of another URL, with a timeout of its own, resolved with the bytes of    *)
(* its own fetch                                                            *)
C5_Witness ==
    \E i \in FetchIds, m \in LoadIds :
        /\ fetches[i].state = "aborted"
        /\ loads[fetches[i].owner].state = "rejected"
        /\ m > fetches[i].owner
        /\ loads[m].url # fetches[i].url
        /\ loads[m].fetch # 0
        /\ fetches[loads[m].fetch].state = "ok"
        /\ loads[m].timer = "cleared"
        /\ loads[m].state = "resolved"
        /\ loads[m].result = fetches[loads[m].fetch].body


(* C28, as stated: the step in which the next build of the plugin instance  *)
(* starts leaves the payload cache and the in-flight map empty.             *)
C28_MapsEmptyAtBuildStart ==
    [][runs' = runs + 1 => (remoteCache' = NoMap /\ pending' = NoMap)]_vars

(* C29, as stated: after every step, each entry of the in-flight map names  *)
(* a fetch that has not settled; and a step that starts a load of a URL     *)
(* whose fetch has failed, none being in flight, issues a new fetch.        *)
C29_PendingOnlyWhileUnsettled ==
    [][/\ \A url \in DOMAIN pending' : fetches'[pending'[url]].state = "inflight"
       /\ (/\ Len(loads') = Len(loads) + 1
           /\ \E i \in FetchesOf(loads'[Len(loads')].url) : fetches[i].state # "ok"
           /\ \A i \in FetchesOf(loads'[Len(loads')].url) : fetches[i].state # "inflight")
             => Len(fetches') = Len(fetches) + 1
      ]_vars

----------------------------------------------------------------------------
(* HTML augmentation element by element.  The hook runs in its single-pass  *)
(* configuration over a bundle whose document is drawn from DocElements,    *)
(* with skip patterns and a remote stylesheet, and may be called again on   *)
(* the bundle it has augmented.                                             *)

StaleIntegrity == [alg |-> "sha384", digest |-> Text("stale")]

CdnStyle == Url("https://", << "cdn", "a.css" >>)

(* the elements the documents are made of, in document order *)
DocElements ==
    << Element("script", "", "", Url("/", << "main.js" >>), NoIntegrity),
       Element("link", "stylesheet", "", Url("/", << "assets", "style.css" >>),
               StaleIntegrity),
       Element("link", "stylesheet", "", CdnStyle, NoIntegrity),
       [Element("script", "", "", Url("/", << "assets", "lazy.js" >>), NoIntegrity)
          EXCEPT !.id = "analytics"],
       Element("script", "", "", Url("/", << "missing.js" >>), NoIntegrity),
       Element("link", "modulepreload", "", Url("/", << "assets", "lazy.js" >>),
               NoIntegrity) >>

(* the document holding the elements the mask selects *)
DocOf(mask) ==
    LET F[i \in 0..Len(DocElements)] ==
          IF i = 0 THEN << >>
          ELSE IF mask[i] THEN Append(F[i - 1], DocElements[i]) ELSE F[i - 1]
    IN  F[Len(DocElements)]

Docs == { DocOf(mask) : mask \in [1..Len(DocElements) -> BOOLEAN] }

HtmlBundles ==
    { [f \in {"index.html", "main.js", "assets/lazy.js", "assets/style.css"} |->
         CASE f = "index.html"     -> Asset(Html(doc))
           [] f = "main.js"        -> Chunk(TRUE, Text("console.log(1)"), FALSE, "main",
                                            "src/main.ts", {"src/main.ts"}, dyn, FALSE)
           [] f = "assets/lazy.js" -> Chunk(FALSE, Text("console.log(2)"), FALSE, "lazy",
                                            "src/lazy.ts", {"src/lazy.ts"}, << >>, FALSE)
           [] OTHER                -> Asset(Text("body{}")) ] :
      doc \in Docs, dyn \in { << >>, << "src/lazy.ts" >> } }

(* Skip patterns.  A pattern and the text it is matched against are          *)
(* sequences of tokens; the token "*" of a pattern is the wildcard.          *)
SkipChoices == { << >>,
                 << << "analytics" >> >>,
                 << << "vendor-", "*" >>, << "*", "lazy.js" >> >> }

UrlTokens(url) == << url.prefix >> \o url.segs

IdTokens(id) == IF id = "" THEN << >> ELSE << id >>

RECURSIVE GlobMatch(_, _)
GlobMatch(pattern, value) ==
    IF pattern = << >> THEN value = << >>
    ELSE IF Head(pattern) = "*"
    THEN \/ GlobMatch(Tail(pattern), value)
         \/ value # << >> /\ GlobMatch(pattern, Tail(value))
    ELSE /\ value # << >>
         /\ Head(value) = Head(pattern)
         /\ GlobMatch(Tail(pattern), Tail(value))

(* matchesPattern(pattern, value): false for an empty pattern or value *)
matchesPattern(pattern, value) ==
    pattern # << >> /\ value # << >> /\ GlobMatch(pattern, value)

shouldSkipElementNever(el, patterns) == FALSE

(* shouldSkipElement: some pattern matches the id, the src or the href *)
shouldSkipElement(el, patterns) ==
    \E i \in 1..Len(patterns) :
        \/ matchesPattern(patterns[i], IdTokens(el.id))
        \/ matchesPattern(patterns[i], UrlTokens(el.url))

(* Remote resources: what the fetch of each URL ends with. *)
RemoteUrls == { CdnStyle }

NetOutcomes == { "ok", "httpError", "networkError", "aborted" }

RemoteBody == Text("remote")

(* loadResource: a remote URL resolves to the fetched bytes or rejects, any *)
(* other path is looked up in the bundle                                    *)
loadResource(resourcePath, b) ==
    IF isHttpUrl(resourcePath)
    THEN IF net[AbsoluteUrl(resourcePath)] = "ok"
         THEN Loaded("ok", RemoteBody)
         ELSE Loaded("threw", EmptyText)
    ELSE loadLocalResource(resourcePath, b)

ElementAwaitsAll(el) ==
    Selected(el) /\ ~shouldSkipElement(el, skipResources)

(* a selected element whose processElement reaches `await loadResource(...)` *)
ElementAwaits(el) ==
    /\ Selected(el)
    /\ ~shouldSkipElement(el, skipResources)
    /\ el.integrity = NoIntegrity

Pend(f, i) == [file |-> f, idx |-> i]

Warning(msg, about) == [msg |-> msg, about |-> about]

Drop(m, k) == [x \in DOMAIN m \ {k} |-> m[x]]

(* processSingleHtmlFile up to the await of Promise.all in addSriToHtml:     *)
(* the content is extracted and parsed, the elements are selected and every *)
(* processElement runs to its first await (or returns before it)            *)
AugmentStart(f) ==
    /\ pc = "awaitHtml"
    /\ f \in htmlPending
    /\ f \notin DOMAIN dom
    /\ LET source == bundle[f].source
       IN  IF source = EmptyText
           THEN /\ htmlPending' = htmlPending \ {f}
                /\ warnings' = Append(warnings, Warning("HTML file has no source content", f))
                /\ log' = log
                /\ UNCHANGED <<dom, elPending>>
           ELSE IF HtmlFileThrows(bundle[f])
           THEN /\ htmlPending' = htmlPending \ {f}
                /\ log' = log \cup { Logged("error", "Failed to process HTML file", f) }
                /\ UNCHANGED <<dom, elPending, warnings>>
           ELSE /\ dom' = Put(dom, f, source[1].els)
                /\ elPending' = elPending \cup
                                  { Pend(f, i) : i \in { j \in 1..Len(source[1].els) :
                                                           ElementAwaits(source[1].els[j]) } }
                /\ UNCHANGED <<htmlPending, warnings, log>>
    /\ UNCHANGED <<bundle, pc, trace, injectIdx, thrown, rethrown>>
    /\ UNCHANGED <<skipResources, net, runs, firstOut, importIdx>>
    /\ UNCHANGED <<cfgVars, passVars, handlerMaps, loadVars, rtVars>>

ElementSettlesUncaught(f, i) ==
    /\ pc = "awaitHtml"
    /\ Pend(f, i) \in elPending
    /\ f \in DOMAIN dom
    /\ LET source == loadResource(dom[f][i].url, bundle)
       IN  IF source.kind = "threw"
           THEN /\ Throw("Failed to fetch")
                /\ UNCHANGED dom
           ELSE /\ dom' = [dom EXCEPT ![f][i] = setIntegrity(@, source, crossorigin)]
                /\ UNCHANGED <<pc, thrown>>
    /\ elPending' = elPending \ {Pend(f, i)}
    /\ UNCHANGED <<bundle, htmlPending, log, trace, injectIdx, rethrown>>
    /\ UNCHANGED <<skipResources, net, runs, firstOut, importIdx, warnings>>
    /\ UNCHANGED <<cfgVars, passVars, handlerMaps, loadVars, rtVars>>

(* one processElement resumes after `await loadResource(...)`: it sets the  *)
(* attributes, returns on an empty result, or its rejection is caught by    *)
(* the .catch of addSriToHtml and warned about                              *)
ElementSettles(f, i) ==
    /\ pc = "awaitHtml"
    /\ Pend(f, i) \in elPending
    /\ f \in DOMAIN dom
    /\ LET source == loadResource(dom[f][i].url, bundle)
       IN  /\ dom' = [dom EXCEPT ![f][i] = setIntegrity(@, source, crossorigin)]
           /\ warnings' = IF source.kind = "threw"
                          THEN Append(warnings, Warning("Failed to compute integrity",
                                                        dom[f][i].url))
                          ELSE warnings
    /\ elPending' = elPending \ {Pend(f, i)}
    /\ UNCHANGED <<bundle, pc, htmlPending, log, trace, injectIdx, thrown, rethrown>>
    /\ UNCHANGED <<skipResources, net, runs, firstOut, importIdx>>
    /\ UNCHANGED <<cfgVars, passVars, handlerMaps, loadVars, rtVars>>

RECURSIVE PreloadWarnings(_, _, _)
PreloadWarnings(els, chunkFiles, sri) ==
    IF chunkFiles = << >> THEN << >>
    ELSE LET c == Head(chunkFiles)
             dup == \E i \in 1..Len(els) : /\ els[i].tag = "link"
                                           /\ els[i].rel = "modulepreload"
                                           /\ els[i].url = PreloadHref(c)
         IN  (IF ~dup /\ Pathname(c) \notin DOMAIN sri
              THEN << Warning("No integrity found for dynamic chunk", c) >>
              ELSE << >>)
               \o PreloadWarnings(els, Tail(chunkFiles), sri)

AllSettledIgnored(f) == TRUE

(* `await Promise.all(...)` of addSriToHtml is over for file f *)
AllSettled(f) == \A e \in elPending : e.file # f

(* the rest of processSingleHtmlFile: $.html(), addDynamicChunkPreloads,     *)
(* asset.source = processedHtml                                             *)
AugmentFinish(f) ==
    /\ pc = "awaitHtml"
    /\ f \in htmlPending
    /\ f \in DOMAIN dom
    /\ AllSettled(f)
    /\ LET preload == preloadDynamicChunks /\ dynamicChunkFiles # << >>
           els == IF preload
                  THEN addDynamicChunkPreloads(dom[f], dynamicChunkFiles, sriByPathname,
                                               crossorigin)
                  ELSE dom[f]
       IN  /\ bundle' = [bundle EXCEPT ![f].source = Html(els)]
           /\ warnings' = IF preload
                          THEN warnings \o PreloadWarnings(dom[f], dynamicChunkFiles,
                                                           sriByPathname)
                          ELSE warnings
    /\ dom' = Drop(dom, f)
    /\ htmlPending' = htmlPending \ {f}
    /\ UNCHANGED <<pc, elPending, log, trace, injectIdx, thrown, rethrown>>
    /\ UNCHANGED <<skipResources, net, runs, firstOut, importIdx>>
    /\ UNCHANGED <<cfgVars, passVars, handlerMaps, loadVars, rtVars>>

(* the host calls the hook again on the bundle it has just been given back *)
HandlerCalledAgain ==
    /\ pc = "done"
    /\ runs + 1 < MaxRuns
    /\ runs' = runs + 1
    /\ firstOut' = IF runs = 0 THEN bundle["index.html"].source ELSE firstOut
    /\ pc' = "idle"
    /\ trace' = << "Idle" >>
    /\ UNCHANGED <<bundle, injectIdx, htmlPending, log, thrown, rethrown>>
    /\ UNCHANGED <<skipResources, net, dom, elPending, warnings, importIdx>>
    /\ UNCHANGED <<cfgVars, passVars, handlerMaps, loadVars, rtVars>>

InitHtml ==
    /\ bundle \in HtmlBundles
    /\ bundle0 = bundle
    /\ isSSR = FALSE
    /\ base = RootBase
    /\ runtimePatchDynamicLinks = FALSE
    /\ crossorigin \in {"", "anonymous"}
    /\ pc = "idle"
    /\ trace = << "Idle" >>
    /\ InitPass
    /\ InitHandler
    /\ InitRuntimeIdle
    /\ InitLoadIdle
    /\ skipResources \in SkipChoices
    /\ net \in [RemoteUrls -> NetOutcomes]
    /\ dom = NoMap
    /\ elPending = {}
    /\ runs = 0
    /\ firstOut = EmptyText
    /\ warnings = << >>
    /\ importIdx = 0

NextHtml ==
    \/ HandlerStart
    \/ \E f \in Files : SettleItem(f)
    \/ SinglePassReturns
    \/ ResolveAndStartHtml
    \/ \E f \in Files : AugmentStart(f)
    \/ \E f \in Files, i \in 1..Len(DocElements) : ElementSettles(f, i)
    \/ \E f \in Files : AugmentFinish(f)
    \/ HandlerReturns
    \/ HandlerCalledAgain

SpecHtml == InitHtml /\ [][NextHtml]_vars

----------------------------------------------------------------------------
(* Properties of HTML augmentation                                          *)

(* the elements of the document before the first run and as it is now *)
DocIn == bundle0["index.html"].source[1].els

DocOut == bundle["index.html"].source[1].els

(* modulepreload links are prepended, so element i of the input is element  *)
(* i + Shift of the output                                                  *)
Shift == Len(DocOut) - Len(DocIn)

(* the first augmentation of the document is over *)
AugmentedOnce == runs = 0 /\ pc = "done"

RemoteFails(el) == isHttpUrl(el.url) /\ net[AbsoluteUrl(el.url)] # "ok"

(* a local element whose resource is found in the bundle, and its payload *)
LocalLoads(el) ==
    /\ ~isHttpUrl(el.url)
    /\ loadLocalResource(el.url, bundle0).kind = "ok"
    /\ loadLocalResource(el.url, bundle0).val # EmptyText

(* C12: augmentation never throws; once the document is augmented, every    *)
(* element whose remote fetch failed (status, network or timeout) has no    *)
(* integrity attribute and a warning logged for its URL, and every other    *)
(* element that was to be processed holds the hash of its resource.         *)
C12_ElementFailureIsolated ==
    /\ thrown = ""
    /\ pc # "catch"
    /\ (pc = "awaitHtml" /\ "index.html" \in DOMAIN dom /\ elPending = {})
          => ENABLED AugmentFinish("index.html")
    /\ AugmentedOnce =>
         \A i \in 1..Len(DocIn) :
           ElementAwaits(DocIn[i]) =>
             /\ RemoteFails(DocIn[i]) =>
                  /\ DocOut[i + Shift].integrity = NoIntegrity
                  /\ \E w \in 1..Len(warnings) :
                       warnings[w] = Warning("Failed to compute integrity", DocIn[i].url)
             /\ LocalLoads(DocIn[i]) =>
                  DocOut[i + Shift].integrity =
                    computeIntegrity(loadLocalResource(DocIn[i].url, bundle0).val)
             /\ (isHttpUrl(DocIn[i].url) /\ ~RemoteFails(DocIn[i])) =>
                  DocOut[i + Shift].integrity = computeIntegrity(RemoteBody)

C12_Witness ==
    /\ AugmentedOnce
    /\ net[CdnStyle] = "aborted"
    /\ skipResources = << >>
    /\ Len(DocIn) = 3
    /\ DocIn[1].url = Url("/", << "main.js" >>)
    /\ DocIn[2].url = CdnStyle
    /\ DocIn[3].id = "analytics"
    /\ DocOut[1 + Shift].integrity # NoIntegrity
    /\ DocOut[2 + Shift].integrity = NoIntegrity
    /\ DocOut[3 + Shift].integrity # NoIntegrity

(* C14: the step in which a hashing pass returns its map finds no bundle     *)
(* entry pending; the step in which a document is serialized and written    *)
(* back finds none of its elements pending; the step in which the handler   *)
(* returns finds no file and no element pending.                            *)
C14_PassReturnsAfterAllSettled ==
    [][/\ (buildOutcome = "running" /\ buildOutcome' = "returned") => passPending = {}
       /\ \A f \in DOMAIN bundle :
            (f \in htmlPending /\ f \notin htmlPending') =>
               \A e \in elPending : e.file # f
       /\ (pc = "awaitHtml" /\ pc' = "done") => (htmlPending = {} /\ elPending = {})
      ]_vars

(* a run is over in which the pass hashed three artifacts and the document  *)
(* had at least three elements waiting for their resource                   *)
C14_Witness ==
    /\ pc = "done"
    /\ buildOutcome = "returned"
    /\ Cardinality(DOMAIN integrityMap) = 3
    /\ Cardinality({ i \in 1..Len(DocIn) : ElementAwaits(DocIn[i]) }) >= 3
    /\ elPending = {}
    /\ htmlPending = {}

(* element i of the input document as it is now: in the tree being worked  *)
(* on while the file is open, in the bundle otherwise                        *)
NowAt(i) ==
    IF "index.html" \in DOMAIN dom
    THEN dom["index.html"][i + (Len(dom["index.html"]) - Len(DocIn))]
    ELSE DocOut[i + Shift]

(* the id or the URL of the element matches one of the configured patterns *)
Skipped(el) ==
    \E k \in 1..Len(skipResources) :
        \/ matchesPattern(skipResources[k], IdTokens(el.id))
        \/ matchesPattern(skipResources[k], UrlTokens(el.url))

C18_ExistingIntegrityRecomputed ==
    AugmentedOnce =>
      \A i \in 1..Len(DocIn) :
        (/\ Selected(DocIn[i])
         /\ ~Skipped(DocIn[i])
         /\ DocIn[i].integrity # NoIntegrity
         /\ LocalLoads(DocIn[i]))
          => DocOut[i + Shift].integrity =
               computeIntegrity(loadLocalResource(DocIn[i].url, bundle0).val)

ModulePreloads(els, href) ==
    { i \in 1..Len(els) : /\ els[i].tag = "link"
                          /\ els[i].rel = "modulepreload"
                          /\ els[i].url = href }

(* C20: when the handler has run again on the bundle it produced, with the  *)
(* same options and the same remote responses, the document is the one the  *)
(* first run produced, and it holds at most one modulepreload link for each *)
(* dynamic chunk.                                                           *)
C20_SecondAugmentationChangesNothing ==
    (runs >= 1 /\ pc = "done") =>
       /\ bundle["index.html"].source = firstOut
       /\ \A k \in 1..Len(dynamicChunkFiles) :
            Cardinality(ModulePreloads(DocOut, PreloadHref(dynamicChunkFiles[k]))) <= 1

C20_Witness ==
    /\ runs = 1
    /\ pc = "done"
    /\ dynamicChunkFiles = << "assets/lazy.js" >>
    /\ Len(DocIn) = 1
    /\ DocIn[1].url = Url("/", << "main.js" >>)
    /\ Len(DocOut) = 2
    /\ DocOut[1].rel = "modulepreload"
    /\ DocOut[1].url = PreloadHref("assets/lazy.js")
    /\ DocOut[2].integrity # NoIntegrity
    /\ bundle["index.html"].source = firstOut

(* a local element whose resource is not found in the bundle *)
LocalMissing(el) ==
    /\ ~isHttpUrl(el.url)
    /\ loadLocalResource(el.url, bundle0).kind = "null"

(* C21: at every moment of every run, an element of the input document      *)
(* whose local resource is not in the bundle is the element it was (no      *)
(* integrity, no crossorigin added), no warning names its URL and nothing   *)
(* is thrown; once the document is augmented, the elements whose resource   *)
(* is in the bundle hold its hash.                                          *)
C21_MissingResourceLeftAlone ==
    /\ thrown = ""
    /\ \A i \in 1..Len(DocIn) :
         LocalMissing(DocIn[i]) =>
           /\ NowAt(i) = DocIn[i]
           /\ \A w \in 1..Len(warnings) : warnings[w].about # DocIn[i].url
    /\ AugmentedOnce =>
         \A i \in 1..Len(DocIn) :
           (ElementAwaits(DocIn[i]) /\ LocalLoads(DocIn[i])) =>
              DocOut[i + Shift].integrity =
                computeIntegrity(loadLocalResource(DocIn[i].url, bundle0).val)

C21_Witness ==
    /\ AugmentedOnce
    /\ crossorigin = "anonymous"
    /\ Len(DocIn) = 2
    /\ DocIn[1].url = Url("/", << "main.js" >>)
    /\ DocIn[2].url = Url("/", << "missing.js" >>)
    /\ LocalMissing(DocIn[2])
    /\ DocOut[1 + Shift].integrity # NoIntegrity
    /\ DocOut[1 + Shift].crossorigin = "anonymous"
    /\ DocOut[2 + Shift] = DocIn[2]
    /\ warnings = << >>

----------------------------------------------------------------------------
(* The hook with a configured base: what configResolved may have stored.    *)
Bases == { << >>,
           << "/" >>,
           << "/", "subdir", "/" >>,
           << "https:", "/", "/", "cdn", "/" >>,
           << "https:", "/", "/", "cdn" >>,
           << "http:", "/", "/", "cdn", "/", "subpath", "/" >>,
           << "/", "/", "cdn", "/" >>,
           << "/", "/", "cdn" >> }

InitHref ==
    /\ bundle \in { b \in HtmlBundles :
                      /\ Len(b["index.html"].source[1].els) <= 1
                      /\ b["main.js"].dynamicImports = << "src/lazy.ts" >> }
    /\ bundle0 = bundle
    /\ isSSR = FALSE
    /\ base \in Bases
    /\ runtimePatchDynamicLinks = FALSE
    /\ crossorigin \in {"", "anonymous"}
    /\ pc = "idle"
    /\ trace = << "Idle" >>
    /\ InitPass
    /\ InitHandler
    /\ InitRuntimeIdle
    /\ InitLoadIdle
    /\ skipResources = << >>
    /\ net \in [RemoteUrls -> {"ok", "httpError"}]
    /\ dom = NoMap
    /\ elPending = {}
    /\ runs = 0
    /\ firstOut = EmptyText
    /\ warnings = << >>
    /\ importIdx = 0

SpecHref == InitHref /\ [][NextHtml]_vars

(* the href a base and a file name are to give: the base as it is, one      *)
(* slash at the join, the file name                                         *)
joinBaseHref(b, chunkFile) ==
    IF b = << >> THEN PathTokens(Segs(chunkFile))
    ELSE IF b[Len(b)] = "/" THEN b \o PathTokens(Segs(chunkFile))
    ELSE b \o << "/" >> \o PathTokens(Segs(chunkFile))

(* C27, as stated: the modulepreload link injected for a dynamic chunk has  *)
(* the href made of the base as configured (scheme and double slash kept),  *)
(* one slash, and the chunk file name.                                      *)
C27_PreloadHrefKeepsBase ==
    (pc = "done" /\ Shift >= 1) =>
       \A k \in 1..Shift :
          \E c \in Range(dynamicChunkFiles) :
             DocOut[k].url = HrefUrl(joinBaseHref(base, c))

----------------------------------------------------------------------------
(* analyzeDynamicImports one dynamic import at a time, called on its own as *)
(* the unit tests do: analyzer.analyzeDynamicImports(bundle).               *)

MaxImports == 2

(* a module id, a chunk name, the key of a chunk, an id no chunk has, and   *)
(* the key of an asset                                                      *)
Targets == { "src/lazy.ts", "lazy", "assets/lazy.js", "ghost", "assets/style.css" }

ImportLists == UNION { [1..n -> Targets] : n \in 0..MaxImports }

AnalyzeBundles ==
    { [f \in {"main.js", "assets/lazy.js", "legacy.cjs", "assets/style.css"} |->
         CASE f = "main.js"        -> Chunk(TRUE, Text("console.log(1)"), FALSE, "main",
                                            "src/main.ts", {"src/main.ts"}, imports, FALSE)
           [] f = "assets/lazy.js" -> Chunk(FALSE, Text("console.log(2)"), FALSE, "lazy",
                                            facade, {"src/lazy.ts"}, lazyImports, FALSE)
           [] f = "legacy.cjs"     -> Chunk(FALSE, Text("require(1)"), FALSE, "legacy",
                                            "", {}, << >>, FALSE)
           [] OTHER                -> Asset(Text("body{}")) ] :
      imports \in ImportLists, facade \in {"", "src/lazy.ts"},
      lazyImports \in { << >>, << "ghost" >> } }

(* the dynamic imports the two nested loops visit, in order *)
LoopedImports == AllDynamicImports(bundle, extractChunksFromBundle(bundle))

(* the call up to the loops: the Set is created, the mappings are built *)
AnalyzeStart ==
    /\ pc = "analyze"
    /\ dynamicChunkFiles' = << >>
    /\ importIdx' = 1
    /\ pc' = "analyzing"
    /\ UNCHANGED <<bundle, trace, nonEntryHashes, entryHashes, sriByPathname, injectIdx,
                   htmlPending, log, thrown, rethrown>>
    /\ UNCHANGED <<skipResources, net, dom, elPending, runs, firstOut, warnings>>
    /\ UNCHANGED <<cfgVars, passVars, loadVars, rtVars>>

AnalyzeStepThrows ==
    /\ pc = "analyzing"
    /\ importIdx <= Len(LoopedImports)
    /\ LET dynamicImport == LoopedImports[importIdx]
           resolvedFileName == resolveDynamicImport(dynamicImport,
                                                    buildModuleIdMappings(bundle), bundle)
       IN  IF resolvedFileName # ""
           THEN /\ dynamicChunkFiles' = SetAdd(dynamicChunkFiles, resolvedFileName)
                /\ UNCHANGED <<pc, thrown>>
           ELSE /\ Throw("Could not resolve dynamic import")
                /\ UNCHANGED dynamicChunkFiles
    /\ importIdx' = importIdx + 1
    /\ UNCHANGED <<bundle, trace, nonEntryHashes, entryHashes, sriByPathname, injectIdx,
                   htmlPending, log, rethrown>>
    /\ UNCHANGED <<skipResources, net, dom, elPending, runs, firstOut, warnings>>
    /\ UNCHANGED <<cfgVars, passVars, loadVars, rtVars>>

(* one iteration of `for (const dynamicImport of dynamicImports)` *)
AnalyzeStep ==
    /\ pc = "analyzing"
    /\ importIdx <= Len(LoopedImports)
    /\ LET dynamicImport == LoopedImports[importIdx]
           resolvedFileName == resolveDynamicImport(dynamicImport,
                                                    buildModuleIdMappings(bundle), bundle)
       IN  IF resolvedFileName # ""
           THEN /\ dynamicChunkFiles' = SetAdd(dynamicChunkFiles, resolvedFileName)
                /\ UNCHANGED warnings
           ELSE /\ warnings' = Append(warnings, Warning("Could not resolve dynamic import",
                                                        dynamicImport))
                /\ UNCHANGED dynamicChunkFiles
    /\ importIdx' = importIdx + 1
    /\ UNCHANGED <<bundle, pc, trace, nonEntryHashes, entryHashes, sriByPathname, injectIdx,
                   htmlPending, log, thrown, rethrown>>
    /\ UNCHANGED <<skipResources, net, dom, elPending, runs, firstOut>>
    /\ UNCHANGED <<cfgVars, passVars, loadVars, rtVars>>

(* return dynamicChunkFiles *)
AnalyzeReturn ==
    /\ pc = "analyzing"
    /\ importIdx > Len(LoopedImports)
    /\ pc' = "analyzed"
    /\ UNCHANGED <<bundle, trace, nonEntryHashes, entryHashes, sriByPathname,
                   dynamicChunkFiles, injectIdx, htmlPending, log, thrown, rethrown>>
    /\ UNCHANGED htmlVars
    /\ UNCHANGED <<cfgVars, passVars, loadVars, rtVars>>

InitAnalyze ==
    /\ bundle \in AnalyzeBundles
    /\ bundle0 = bundle
    /\ isSSR = FALSE
    /\ base = RootBase
    /\ runtimePatchDynamicLinks = TRUE
    /\ crossorigin = ""
    /\ pc = "analyze"
    /\ trace = << >>
    /\ InitPass
    /\ InitHandler
    /\ InitRuntimeIdle
    /\ InitLoadIdle
    /\ InitHtmlIdle

NextAnalyze ==
    \/ AnalyzeStart
    \/ AnalyzeStep
    \/ AnalyzeReturn

SpecAnalyze == InitAnalyze /\ [][NextAnalyze]_vars

(* the chunks a target can resolve to: by the module-id index (facade id,   *)
(* chunk name, module ids), as the key of a chunk, by chunk name            *)
ById(t) == { f \in DOMAIN bundle : bundle[f].type = "chunk" /\ t \in ModuleKeys(bundle[f]) }

ByKey(t) == { f \in DOMAIN bundle : f = t /\ bundle[f].type = "chunk" }

ByName(t) == { f \in DOMAIN bundle : bundle[f].type = "chunk" /\ bundle[f].name = t }

Candidates(t) == ById(t) \cup ByKey(t) \cup ByName(t)

Occurrences(seq, x) == Cardinality({ i \in 1..Len(seq) : seq[i] = x })

(* C15: when the analysis has returned, for every chunk and every dynamic   *)
(* import of it that some strategy resolves, the returned set holds a chunk *)
(* the target resolves to; and the set holds nothing but such chunks.       *)
C15_ResolvableTargetsCollected ==
    pc = "analyzed" =>
      /\ \A c \in DOMAIN bundle : bundle[c].type = "chunk" =>
           \A j \in 1..Len(bundle[c].dynamicImports) :
             LET t == bundle[c].dynamicImports[j]
             IN  Candidates(t) # {} => Candidates(t) \cap Range(dynamicChunkFiles) # {}
      /\ \A f \in Range(dynamicChunkFiles) :
           \E j \in 1..Len(LoopedImports) : f \in Candidates(LoopedImports[j])
      /\ \A f \in Range(dynamicChunkFiles) : Occurrences(dynamicChunkFiles, f) = 1

C15_Witness ==
    /\ pc = "analyzed"
    /\ bundle["main.js"].dynamicImports = << "assets/lazy.js", "ghost" >>
    /\ ById("assets/lazy.js") = {}
    /\ dynamicChunkFiles = << "assets/lazy.js" >>

(* C16: the analysis never throws; when it has returned, every dynamic      *)
(* import no strategy resolves has one warning of its own (as many warnings *)
(* about an id as there are unresolved imports of it, and no others), and   *)
(* the imports that follow an unresolved one are resolved all the same.     *)
C16_UnresolvedTargetsWarnedOnce ==
    /\ thrown = ""
    /\ pc \in {"analyze", "analyzing", "analyzed"}
    /\ pc = "analyzing" => (ENABLED AnalyzeStep \/ ENABLED AnalyzeReturn)
    /\ pc = "analyzed" =>
         /\ \A t \in Targets :
              Occurrences(warnings, Warning("Could not resolve dynamic import", t))
                = IF Candidates(t) = {} THEN Occurrences(LoopedImports, t) ELSE 0
         /\ Len(warnings) = Cardinality({ j \in 1..Len(LoopedImports) :
                                            Candidates(LoopedImports[j]) = {} })
         /\ \A j \in 1..Len(LoopedImports) :
              Candidates(LoopedImports[j]) # {} =>
                Candidates(LoopedImports[j]) \cap Range(dynamicChunkFiles) # {}

C16_Witness ==
    /\ pc = "analyzed"
    /\ bundle["main.js"].dynamicImports = << "ghost", "src/lazy.ts" >>
    /\ bundle["assets/lazy.js"].dynamicImports = << "ghost" >>
    /\ Len(warnings) = 2
    /\ dynamicChunkFiles = << "assets/lazy.js" >>

----------------------------------------------------------------------------
(* The browser runtime: installSriRuntime run in a page, once for every     *)
(* entry chunk the page loads, and the DOM calls the page code makes        *)
(* before, between and after the installations.                             *)

MaxInstalls == 2

MaxCalls == 2

(* the hooks in the order installSriRuntime patches them *)
Hooks == << "setAttribute", "appendChild", "insertBefore", "append", "prepend" >>

InsertHooks == { "appendChild", "insertBefore", "append", "prepend" }

(* the global whose prototype carries the method *)
HookOwner(h) == IF h \in {"appendChild", "insertBefore"} THEN "Node" ELSE "Element"

(* Object.entries(sriByPathname): the token of each pathname *)
LazyToken == computeIntegrity(Text("console.log(2)"))

RuntimeMap == [p \in { << "assets", "lazy.js" >> } |-> LazyToken]

(* How a prototype property takes a new value:                              *)
(*   "ok"       Object.defineProperty and assignment both work              *)
(*   "noDefine" Object.defineProperty throws, assignment works              *)
(*   "locked"   both fail (not writable, not configurable)                  *)
(*   "missing"  the prototype has no such method                            *)
PropKinds == { "ok", "noDefine", "locked", "missing" }

(* a global is there, is declared with the value undefined, or is not       *)
(* declared at all (reading it throws a ReferenceError)                     *)
GlobalKinds == { "ok", "undefined", "undeclared" }

Env(elementGlobal, nodeGlobal, strict, cors, prop) ==
    [Element |-> elementGlobal, Node |-> nodeGlobal, strict |-> strict, cors |-> cors,
     prop |-> prop]

AllProps(k) == [h \in Range(Hooks) |-> k]

(* the pages: at most one method that is not replaceable the usual way (in  *)
(* strict code, and in sloppy code when it is locked), or all of them       *)
(* locked, or all without defineProperty, or a global missing, or no        *)
(* crossorigin configured                                                   *)
Envs ==
    { Env("ok", "ok", TRUE, "anonymous", [AllProps("ok") EXCEPT ![h] = k]) :
        h \in Range(Hooks), k \in PropKinds }
    \cup { Env("ok", "ok", FALSE, "anonymous", [AllProps("ok") EXCEPT ![h] = "locked"]) :
             h \in Range(Hooks) }
    \cup { Env("ok", "ok", TRUE, "anonymous", AllProps(k)) : k \in {"noDefine", "locked"} }
    \cup { Env(e, n, TRUE, "anonymous", AllProps("ok")) : e \in GlobalKinds, n \in GlobalKinds }
    \cup { Env("ok", "ok", TRUE, "", AllProps("ok")) }

(* The nodes the page code works with: an element record, and whether its   *)
(* attribute getters throw ("hostile") or it is no element at all ("text"). *)
Node(kind, el) == [kind |-> kind, el |-> el]

LazyUrl == Url("/", << "assets", "lazy.js" >>)

PresetIntegrity == [alg |-> "sha384", digest |-> Text("preset")]

Nodes ==
    { Node("element", Element("script", "", "", LazyUrl, NoIntegrity)),
      Node("element", Element("script", "", "", LazyUrl, PresetIntegrity)),
      Node("element", Element("script", "", "", Url("/", << "other.js" >>), NoIntegrity)),
      Node("element", Element("script", "", "", Url("", << >>), NoIntegrity)),
      Node("element", Element("link", "modulepreload", "", LazyUrl, NoIntegrity)),
      Node("element", Element("link", "preload", "image", LazyUrl, NoIntegrity)),
      Node("element", Element("link", "", "", Url("", << >>), NoIntegrity)),
      Node("element", Element("div", "", "", Url("", << >>), NoIntegrity)),
      Node("hostile", Element("script", "", "", LazyUrl, NoIntegrity)),
      Node("text", Element("", "", "", Url("", << >>), NoIntegrity)) }

(* a call result: the node after the call, the events of the call in order  *)
(* (calls of the method found on the prototype, runs of the browser's own   *)
(* method), and the value returned                                          *)
Done(n, events, result) == [node |-> n, events |-> events, result |-> result]

Ev(what, hook, n) == [what |-> what, hook |-> hook, node |-> n]

(* what the browser's own method returns *)
OrigResult(hook, n) == << "result of", hook >>

(* the browser's own setAttribute *)
origSetAttribute(n, name, value) ==
    LET n2 == [n EXCEPT !.el[name] = value]
    IN  Done(n2, << Ev("original", "setAttribute", n2) >>, OrigResult("setAttribute", n2))

(* the browser's own insertion method: the node is attached as it is *)
origInsert(hook, n) ==
    Done(n, << Ev("original", hook, n) >>, OrigResult(hook, n))

(* getIntegrityForUrl: map.get(new URL(url, location.href).pathname) *)
getIntegrityForUrl(url) ==
    IF url.segs = << >> THEN NoIntegrity
    ELSE IF url.segs \in DOMAIN RuntimeMap THEN RuntimeMap[url.segs]
    ELSE NoIntegrity

(* the rel/as test of maybeSetIntegrity for link elements *)
eligible(el) ==
    \/ el.rel = "stylesheet"
    \/ el.rel = "modulepreload"
    \/ el.rel = "preload" /\ el.as \in {"script", "style", "font"}

(* The methods as the page finds them.  K is the number of wrappers on      *)
(* Element.prototype.setAttribute (what el.setAttribute resolves to), k the *)
(* number of wrappers on the insertion method; the wrapper installed last   *)
(* is the outermost, and the first one calls the browser's own method.  The *)
(* attribute name "url" stands for the URL attribute of the element (src of *)
(* a script, href of a link).                                               *)

(* the condition under which the setAttribute wrapper processes `this` *)
triggers(n, name) ==
    /\ n.kind # "text"
    /\ \/ n.el.tag = "link" /\ name \in {"url", "rel", "as"}
       \/ n.el.tag = "script" /\ name = "url"

Tried(n, events, threw) == [node |-> n, events |-> events, threw |-> threw]

(* el.setAttribute(name, value) as maybeSetIntegrity calls it, with the     *)
(* name integrity or crossorigin: no wrapper's test of the name succeeds,   *)
(* so each of the K wrappers only passes the call on and returns its result *)
elSetAttribute(K, n, name, value) ==
    LET r == origSetAttribute(n, name, value)
    IN  IF K = 0 THEN r
        ELSE Done(r.node, << Ev("call", "setAttribute", n) >> \o r.events, r.result)

maybeSetIntegrityOverwrites(K, n) ==
    IF n.kind = "text" \/ n.el.tag \notin {"link", "script"} THEN Tried(n, << >>, FALSE)
    ELSE IF n.kind = "hostile" THEN Tried(n, << >>, TRUE)
    ELSE IF n.el.tag = "link" /\ ~eligible(n.el) THEN Tried(n, << >>, FALSE)
    ELSE IF getIntegrityForUrl(n.el.url) = NoIntegrity THEN Tried(n, << >>, FALSE)
    ELSE LET s1 == elSetAttribute(K, n, "integrity", getIntegrityForUrl(n.el.url))
             s2 == IF env.cors # "" /\ s1.node.el.crossorigin = ""
                   THEN elSetAttribute(K, s1.node, "crossorigin", env.cors)
                   ELSE Done(s1.node, << >>, << >>)
         IN  Tried(s2.node, s1.events \o s2.events, FALSE)

(* maybeSetIntegrity(el) *)
maybeSetIntegrity(K, n) ==
    IF n.kind = "text" \/ n.el.tag \notin {"link", "script"} THEN Tried(n, << >>, FALSE)
    ELSE IF n.kind = "hostile" THEN Tried(n, << >>, TRUE)
    ELSE IF n.el.tag = "link" /\ ~eligible(n.el) THEN Tried(n, << >>, FALSE)
    ELSE IF getIntegrityForUrl(n.el.url) = NoIntegrity THEN Tried(n, << >>, FALSE)
    ELSE LET s1 == IF n.el.integrity = NoIntegrity
                   THEN elSetAttribute(K, n, "integrity", getIntegrityForUrl(n.el.url))
                   ELSE Done(n, << >>, << >>)
             s2 == IF env.cors # "" /\ s1.node.el.crossorigin = ""
                   THEN elSetAttribute(K, s1.node, "crossorigin", env.cors)
                   ELSE Done(s1.node, << >>, << >>)
         IN  Tried(s2.node, s1.events \o s2.events, FALSE)

(* the function assigned to Element.prototype.setAttribute, after its call  *)
(* of the method it replaced has returned r: the integrity step in a try,   *)
(* then return r                                                            *)
wrappedSetAttribute(K, r, name) ==
    LET m == IF triggers(r.node, name) THEN maybeSetIntegrity(K, r.node)
             ELSE Tried(r.node, << >>, FALSE)
    IN  Done(m.node, r.events \o m.events, r.result)

(* el.setAttribute(name, value) as the page code calls it: through the K    *)
(* wrappers, the innermost finishing first                                  *)
protoSetAttribute(K, n, name, value) ==
    LET chain[k \in 0..K] ==
            IF k = 0 THEN origSetAttribute(n, name, value)
            ELSE wrappedSetAttribute(K, chain[k - 1], name)
    IN  IF K = 0 THEN chain[0]
        ELSE Done(chain[K].node, << Ev("call", "setAttribute", n) >> \o chain[K].events,
                  chain[K].result)

(* the integrity steps of k insertion wrappers, one after the other *)
Steps(K, k, n) ==
    LET pre[j \in 0..k] ==
            IF j = 0 THEN Tried(n, << >>, FALSE)
            ELSE LET m == maybeSetIntegrity(K, pre[j - 1].node)
                 IN  Tried(m.node, pre[j - 1].events \o m.events, pre[j - 1].threw \/ m.threw)
    IN  pre[k]

wrappedSkipsOnThrow(K, hook, k, n) ==
    LET m == Steps(K, k, n)
        r == origInsert(hook, m.node)
    IN  IF m.threw THEN Done(m.node, m.events, << >>)
        ELSE Done(r.node, m.events \o r.events, r.result)

wrappedAfter(K, hook, k, n) ==
    LET r == origInsert(hook, n)
        m == Steps(K, k, r.node)
    IN  Done(m.node, r.events \o m.events, r.result)

wrappedAndOriginal(K, hook, k, n) ==
    LET m == Steps(K, k, n)
        r == origInsert(hook, m.node)
    IN  Done(r.node,
             m.events \o r.events \o [j \in 1..(k - 1) |-> Ev("original", hook, r.node)],
             r.result)

(* const wrapped = function () { try { maybeSetIntegrity(node) } catch {}    *)
(* return orig.apply(this, arguments) }: k of them around the browser's     *)
(* method, each running its integrity step and then calling the one inside  *)
wrapped(K, hook, k, n) ==
    LET m == Steps(K, k, n)
        r == origInsert(hook, m.node)
    IN  Done(r.node, m.events \o r.events, r.result)

(* parent[hook](node) *)
protoInsert(K, hook, k, n) ==
    IF k = 0 THEN origInsert(hook, n)
    ELSE LET r == wrapped(K, hook, k, n)
         IN  Done(r.node, << Ev("call", hook, n) >> \o r.events, r.result)

(* Installation, one hook at a time. *)

NextHook(h) ==
    CASE h = "setAttribute" -> "appendChild"
      [] h = "appendChild"  -> "insertBefore"
      [] h = "insertBefore" -> "append"
      [] h = "append"       -> "prepend"
      [] OTHER              -> "end"

TopLevelRethrow == "threw"

(* the catch of the try that encloses the whole body of installSriRuntime *)
TopLevelCatch == "swallowed"

(* Element.prototype.setAttribute = function ... : a plain assignment,      *)
(* which throws on a read-only property in strict code and does nothing in  *)
(* sloppy code                                                              *)
assignSetAttribute(kind, strict) ==
    CASE kind \in {"ok", "noDefine"} -> "patched"
      [] kind = "missing"            -> "unpatched"
      [] OTHER                       -> IF strict THEN "thrown" ELSE "unpatched"

(* wrapInsert: Object.defineProperty, on failure proto[key] = wrapped, on   *)
(* failure nothing                                                          *)
installWrapper(kind, strict) ==
    CASE kind \in {"ok", "noDefine"} -> "patched"
      [] OTHER                       -> "unpatched"

(* installSriRuntime(sriByPathname, opts) is called: the try is entered,    *)
(* map and cors are built                                                   *)
InstallStart ==
    /\ rtPc = "idle"
    /\ installs < MaxInstalls
    /\ rtPc' = "setAttribute"
    /\ attempted' = {}
    /\ installOutcome' = "running"
    /\ UNCHANGED <<env, layers, installs, node, calls>>
    /\ UNCHANGED <<pipeVars, loadVars, htmlVars>>

(* the step ends in the catch: the call returns *)
Swallow ==
    /\ rtPc' = "idle"
    /\ installOutcome' = TopLevelCatch
    /\ installs' = installs + 1
    /\ UNCHANGED layers

(* const origSetAttribute = Element?.prototype?.setAttribute; if (...) { ... } *)
InstallSetAttribute ==
    /\ rtPc = "setAttribute"
    /\ IF env.Element = "undeclared"
       THEN Swallow /\ UNCHANGED attempted
       ELSE IF env.Element = "undefined"
       THEN /\ rtPc' = NextHook("setAttribute")
            /\ UNCHANGED <<attempted, layers, installOutcome, installs>>
       ELSE LET how == assignSetAttribute(env.prop["setAttribute"], env.strict)
            IN  /\ attempted' = attempted \cup {"setAttribute"}
                /\ IF how = "thrown" THEN Swallow
                   ELSE /\ layers' = IF how = "patched"
                                     THEN [layers EXCEPT !["setAttribute"] = @ + 1]
                                     ELSE layers
                        /\ rtPc' = NextHook("setAttribute")
                        /\ UNCHANGED <<installOutcome, installs>>
    /\ UNCHANGED <<env, node, calls>>
    /\ UNCHANGED <<pipeVars, loadVars, htmlVars>>

(* wrapInsert(Node.prototype, "appendChild") ... wrapInsert(Element.prototype, "prepend") *)
InstallInsert(h) ==
    /\ rtPc = h
    /\ h \in InsertHooks
    /\ IF env[HookOwner(h)] # "ok"
       THEN Swallow /\ UNCHANGED attempted
       ELSE LET how == installWrapper(env.prop[h], env.strict)
            IN  /\ attempted' = attempted \cup {h}
                /\ IF how = "thrown" THEN Swallow
                   ELSE /\ layers' = IF how = "patched" THEN [layers EXCEPT ![h] = @ + 1]
                                     ELSE layers
                        /\ rtPc' = NextHook(h)
                        /\ UNCHANGED <<installOutcome, installs>>
    /\ UNCHANGED <<env, node, calls>>
    /\ UNCHANGED <<pipeVars, loadVars, htmlVars>>

(* the end of the try is reached: the call returns *)
InstallReturn ==
    /\ rtPc = "end"
    /\ rtPc' = "idle"
    /\ installOutcome' = "returned"
    /\ installs' = installs + 1
    /\ UNCHANGED <<env, layers, attempted, node, calls>>
    /\ UNCHANGED <<pipeVars, loadVars, htmlVars>>

(* The page code calls DOM methods on the node it works with; calls holds   *)
(* the last call made, with its number.                                     *)
Made == IF calls = << >> THEN 0 ELSE calls[1].no

Call(hook, args, K, k, before, r) ==
    [no |-> Made + 1, hook |-> hook, args |-> args, setLayers |-> K, layers |-> k,
     before |-> before, after |-> r.node, events |-> r.events, result |-> r.result]

(* the attributes the page code sets itself *)
AttrChoices == { << "url", LazyUrl >>, << "rel", "modulepreload" >> }

(* node.setAttribute(name, value) *)
CallSetAttribute(name, value) ==
    /\ rtPc = "idle"
    /\ Made < MaxCalls
    /\ node.kind # "text"
    /\ env.Element = "ok"
    /\ LET r == protoSetAttribute(layers["setAttribute"], node, name, value)
       IN  /\ node' = r.node
           /\ calls' = << Call("setAttribute", << name, value >>, layers["setAttribute"],
                                 layers["setAttribute"], node, r) >>
    /\ UNCHANGED <<env, layers, rtPc, attempted, installOutcome, installs>>
    /\ UNCHANGED <<pipeVars, loadVars, htmlVars>>

(* parent.appendChild(node), parent.insertBefore(node, ref), parent.append(node), ... *)
CallInsert(h) ==
    /\ rtPc = "idle"
    /\ Made < MaxCalls
    /\ h \in InsertHooks
    /\ env[HookOwner(h)] = "ok"
    /\ env.prop[h] # "missing"
    /\ LET r == protoInsert(layers["setAttribute"], h, layers[h], node)
       IN  /\ node' = r.node
           /\ calls' = << Call(h, << >>, layers["setAttribute"], layers[h], node, r) >>
    /\ UNCHANGED <<env, layers, rtPc, attempted, installOutcome, installs>>
    /\ UNCHANGED <<pipeVars, loadVars, htmlVars>>

InitRuntime ==
    /\ bundle = [f \in {} |-> Asset(EmptyText)]
    /\ bundle0 = bundle
    /\ isSSR = FALSE
    /\ base = RootBase
    /\ runtimePatchDynamicLinks = TRUE
    /\ crossorigin = ""
    /\ pc = "page"
    /\ trace = << >>
    /\ InitPass
    /\ InitHandler
    /\ InitLoadIdle
    /\ InitHtmlIdle
    /\ env \in Envs
    /\ layers = [h \in Range(Hooks) |-> 0]
    /\ rtPc = "idle"
    /\ attempted = {}
    /\ installOutcome = "none"
    /\ installs = 0
    /\ node \in Nodes
    /\ calls = << >>

NextRuntime ==
    \/ InstallStart
    \/ InstallSetAttribute
    \/ \E h \in InsertHooks : InstallInsert(h)
    \/ InstallReturn
    \/ \E a \in AttrChoices : CallSetAttribute(a[1], a[2])
    \/ \E h \in InsertHooks : CallInsert(h)

SpecRuntime == InitRuntime /\ [][NextRuntime]_vars

----------------------------------------------------------------------------
(* Properties of the browser runtime. *)

(* the last call the page code made *)
LastCall == calls[1]

(* how many events of one kind a call produced for one method *)
Count(events, what, hook) ==
    Cardinality({ i \in DOMAIN events : events[i].what = what /\ events[i].hook = hook })

(* the hooks one installation patches in this page *)
Patchable(h) == env.prop[h] \in {"ok", "noDefine"}

(* C22: installing the runtime never throws: whatever the page lacks or     *)
(* locks, the call of installSriRuntime returns normally, and the page code *)
(* goes on.                                                                 *)
C22_InstallNeverThrows ==
    /\ installOutcome \in {"none", "running", "returned", "swallowed"}
    /\ installOutcome \in {"returned", "swallowed"} <=> (rtPc = "idle" /\ installs >= 1)

C22_Witness ==
    /\ installOutcome = "swallowed"
    /\ env.Node = "undeclared"
    /\ layers["setAttribute"] = 1
    /\ Made = 1
    /\ LastCall.hook = "setAttribute"

(* the node a call worked on, apart from what the runtime may add to it *)
SameNode(n, m) ==
    /\ n.kind = m.kind
    /\ [n.el EXCEPT !.integrity = NoIntegrity, !.crossorigin = ""]
         = [m.el EXCEPT !.integrity = NoIntegrity, !.crossorigin = ""]

(* the integrity step of a patched call throws on this node *)
StepThrows(n) == n.kind = "hostile"

(* C23: every call of a patched DOM method runs the browser's original      *)
(* method exactly once, on the same node and with the same arguments, and   *)
(* returns what the original returned, whether the integrity step runs, is  *)
(* skipped or throws.  (The setAttribute calls the integrity step makes     *)
(* itself are calls of the patched setAttribute too: every call of a        *)
(* method, outer or nested, is matched by one run of its original.)         *)
C23_OriginalCalledOnce ==
    (Made >= 1 /\ LastCall.layers >= 1) =>
        LET c == LastCall
            own == { i \in DOMAIN c.events :
                       c.events[i].what = "original" /\ c.events[i].hook = c.hook }
            first == CHOOSE i \in own : \A j \in own : i <= j
        IN  /\ Count(c.events, "original", c.hook) = Count(c.events, "call", c.hook)
            /\ c.setLayers >= 1 =>
                 Count(c.events, "original", "setAttribute")
                   = Count(c.events, "call", "setAttribute")
            /\ c.hook \in InsertHooks => Cardinality(own) = 1
            /\ own # {}
            /\ IF c.hook = "setAttribute"
               THEN c.events[first].node = [c.before EXCEPT !.el[c.args[1]] = c.args[2]]
               ELSE SameNode(c.events[first].node, c.before)
            /\ c.result = OrigResult(c.hook, c.events[first].node)

C23_Witness ==
    /\ Made = 2
    /\ LastCall.layers = 1
    /\ LastCall.hook = "appendChild"
    /\ StepThrows(LastCall.before)
    /\ Count(LastCall.events, "original", "appendChild") = 1

(* C24: when installing one hook fails with Object.defineProperty and with  *)
(* plain assignment, only that hook stays unpatched: the installation goes  *)
(* on to every other hook, and every hook that can be replaced carries one  *)
(* wrapper per installation.                                                *)
C24_FailedHookSkippedOthersAttempted ==
    \A h \in Range(Hooks) :
        (/\ rtPc = "idle"
         /\ installs >= 1
         /\ env.Element = "ok"
         /\ env.Node = "ok"
         /\ env.prop[h] = "locked") =>
            /\ layers[h] = 0
            /\ attempted = Range(Hooks)
            /\ \A g \in Range(Hooks) :
                 (g # h /\ Patchable(g)) => layers[g] = installs

(* the element is one the integrity step gives a token *)
TakesToken(n) ==
    /\ n.kind = "element"
    /\ n.el.tag = "script" \/ (n.el.tag = "link" /\ eligible(n.el))
    /\ n.el.url.segs \in DOMAIN RuntimeMap
    /\ n.el.integrity = NoIntegrity

(* C25: an eligible element with a token in the runtime map that is passed  *)
(* to a patched insertion method carries its integrity attribute when the   *)
(* browser's original insertion method runs.                                *)
C25_IntegrityBeforeInsertion ==
    (/\ Made >= 1
     /\ LastCall.hook \in InsertHooks
     /\ LastCall.layers >= 1
     /\ TakesToken(LastCall.before)) =>
        \A i \in DOMAIN LastCall.events :
            (LastCall.events[i].what = "original" /\ LastCall.events[i].hook = LastCall.hook) =>
                /\ LastCall.events[i].node.el.integrity = RuntimeMap[LastCall.before.el.url.segs]
                /\ env.cors # "" => LastCall.events[i].node.el.crossorigin = env.cors

C25_Witness ==
    /\ Made >= 1
    /\ LastCall.hook = "prepend"
    /\ LastCall.layers = 1
    /\ LastCall.before.el.tag = "link"
    /\ TakesToken(LastCall.before)
    /\ \E i \in DOMAIN LastCall.events :
          /\ LastCall.events[i] = Ev("original", "prepend", LastCall.after)
          /\ LastCall.after.el.integrity = LazyToken

Once(k) == IF k >= 1 THEN 1 ELSE 0

AfterOneInstallation(c) ==
    IF c.hook = "setAttribute"
    THEN protoSetAttribute(Once(c.setLayers), c.before, c.args[1], c.args[2]).node
    ELSE protoInsert(Once(c.setLayers), c.hook, Once(c.layers), c.before).node

(* C30: when the runtime was installed more than once, a call of a patched  *)
(* method still runs the browser's original method once per call (once for  *)
(* an insertion, once for each setAttribute call, outer or made by the      *)
(* integrity step), and the element ends with the integrity and crossorigin *)
(* attributes it ends with after one installation.                          *)
C30_DoubleInstallSameEffect ==
    (Made >= 1 /\ LastCall.layers >= 2) =>
        /\ Count(LastCall.events, "original", LastCall.hook)
             = Count(LastCall.events, "call", LastCall.hook)
        /\ LastCall.hook \in InsertHooks =>
             Count(LastCall.events, "original", LastCall.hook) = 1
        /\ LastCall.after.el.integrity = AfterOneInstallation(LastCall).el.integrity
        /\ LastCall.after.el.crossorigin = AfterOneInstallation(LastCall).el.crossorigin
        /\ TakesToken(LastCall.before) =>
             /\ LastCall.hook \in InsertHooks => LastCall.after.el.integrity = LazyToken
             /\ LastCall.after.el.integrity \in {NoIntegrity, LazyToken}

C30_Witness ==
    /\ installs = 2
    /\ Made >= 1
    /\ LastCall.hook = "appendChild"
    /\ LastCall.layers = 2
    /\ LastCall.setLayers = 2
    /\ TakesToken(LastCall.before)
    /\ LastCall.after.el.integrity = LazyToken
    /\ LastCall.after.el.crossorigin = "anonymous"

====
